---------------------------- MODULE Spec2Model ----------------------------
(***************************************************************************)
(* A model of analyze_drcov.py: parse_drcov_file reads a drcov trace (a    *)
(* text prologue, the "BB Table:" header line and 8-byte binary records),  *)
(* resolves the target module, aggregates the covered bytes and correlates *)
(* them with the export table that objdump prints.                         *)
(*                                                                         *)
(* Text is kept as text: the prologue, the header line and objdump's       *)
(* output are strings, and find, split, strip, startswith and int() are    *)
(* operators over them. The binary suffix is a sequence of bytes.          *)
(***************************************************************************)
EXTENDS Integers, Sequences, FiniteSets, TLC

(***************************************************************************)
(* Bounds of the model.                                                    *)
(***************************************************************************)
\* the longest record stream the decode family of traces holds
MaxRecs == 2
\* the bytes of an incomplete trailing record range over 0..MaxTail (< 8)
MaxTail == 1
\* the widest window the gap computation is applied to on its own
MaxGapWindow == 10

\* the most target blocks of the application-code stage on its own
MaxCombBlocks == 12

\* the largest of the small challenges Aud_InitDll(0) returns
MaxChallenge == 16

\* the most lines of an export dump scanned on its own
MaxDumpLines == 3

(***************************************************************************)
(* Program constants.                                                      *)
(***************************************************************************)
entry_size == 8
HitThreshold == 256
TailAllowance == 512
FallbackTextSize == 168232
TopGaps == 10

EXPORT_FUNCTIONS ==
    << "Aud_InitDll", "Aud_GetInterfaceVersion", "Aud_GetDllVersion",
       "Aud_OpenGetFile", "Aud_CloseGetFile", "Aud_GetNumberOfFiles",
       "Aud_GetNumberOfChannels", "Aud_FileExistsW",
       "Aud_OpenPutFile", "Aud_ClosePutFile", "Aud_PutNumberOfChannels", "Aud_MakeDirW",
       "Aud_GetChannelDataDoubles", "Aud_GetChannelDataOriginal",
       "Aud_PutChannelDataDoubles", "Aud_PutChannelDataOriginal",
       "Aud_GetFileProperties", "Aud_GetChannelProperties",
       "Aud_PutFileProperties", "Aud_PutChannelProperties",
       "Aud_GetFileHeaderOriginal", "Aud_PutFileHeaderOriginal",
       "Aud_GetString", "Aud_PutString",
       "Aud_TextFileAOpenW", "Aud_TextFileAClose", "Aud_ReadLineAInFile",
       "Aud_GetLastWarnings", "Aud_GetErrDescription" >>

\* the marker content.find looks for
Marker == "BB Table:"
\* the literal of the path test
TargetName == "target.dll"

(***************************************************************************)
(* Python's str and bytes operations, as the code uses them.               *)
(***************************************************************************)
Min(a, b) == IF a <= b THEN a ELSE b

Abs(n) == IF n < 0 THEN -n ELSE n

\* s[i] of a str, 1-based
Ch(s, i) == SubSeq(s, i, i)

\* s[i:], 1-based
From(s, i) == SubSeq(s, i, Len(s))

\* sub in s
Contains(s, sub) ==
    \E i \in 1..(Len(s) - Len(sub) + 1) : SubSeq(s, i, i + Len(sub) - 1) = sub

\* s.startswith(pre)
StartsWith(s, pre) == Len(pre) <= Len(s) /\ SubSeq(s, 1, Len(pre)) = pre

\* s.find(sub, start): the 0-based index of the first occurrence at or after
\* the 0-based index start, or -1
Find(s, sub, start) ==
    LET hits == { i \in (start + 1)..(Len(s) - Len(sub) + 1) :
                      SubSeq(s, i, i + Len(sub) - 1) = sub }
    IN  IF hits = {} THEN -1
        ELSE (CHOOSE i \in hits : \A j \in hits : i <= j) - 1

Whitespace == {" ", "\n", "\t", "\r"}

RECURSIVE LStrip(_)
LStrip(s) ==
    IF Len(s) > 0 /\ Ch(s, 1) \in Whitespace THEN LStrip(From(s, 2)) ELSE s

RECURSIVE RStrip(_)
RStrip(s) ==
    IF Len(s) > 0 /\ Ch(s, Len(s)) \in Whitespace
    THEN RStrip(SubSeq(s, 1, Len(s) - 1)) ELSE s

\* s.strip()
Strip(s) == RStrip(LStrip(s))

\* s.split(sep) for a non-empty separator: a sequence of strings
RECURSIVE Split(_, _)
Split(s, sep) ==
    LET k == Find(s, sep, 0)
    IN  IF k = -1 THEN <<s>>
        ELSE <<SubSeq(s, 1, k)>> \o Split(From(s, k + Len(sep) + 1), sep)

\* s.split(): the maximal runs of non-whitespace characters
RECURSIVE SplitWS(_)
SplitWS(s) ==
    LET t == LStrip(s)
        ends == { i \in 1..Len(t) : Ch(t, i) \in Whitespace }
        k == IF ends = {} THEN Len(t) + 1
             ELSE CHOOSE i \in ends : \A j \in ends : i <= j
    IN  IF Len(t) = 0 THEN <<>>
        ELSE <<SubSeq(t, 1, k - 1)>> \o SplitWS(From(t, k))

DecDigits == {"0", "1", "2", "3", "4", "5", "6", "7", "8", "9"}

HexDigits == DecDigits \cup {"a", "b", "c", "d", "e", "f", "A", "B", "C", "D", "E", "F"}

DigitVal(c) ==
    CASE c = "0" -> 0 [] c = "1" -> 1 [] c = "2" -> 2 [] c = "3" -> 3
      [] c = "4" -> 4 [] c = "5" -> 5 [] c = "6" -> 6 [] c = "7" -> 7
      [] c = "8" -> 8 [] c = "9" -> 9
      [] c \in {"a", "A"} -> 10 [] c \in {"b", "B"} -> 11
      [] c \in {"c", "C"} -> 12 [] c \in {"d", "D"} -> 13
      [] c \in {"e", "E"} -> 14 [] c \in {"f", "F"} -> 15

\* the value of a string of digits in the given base
RECURSIVE DigitsVal(_, _)
DigitsVal(s, base) ==
    IF Len(s) = 0 THEN 0
    ELSE DigitsVal(SubSeq(s, 1, Len(s) - 1), base) * base + DigitVal(Ch(s, Len(s)))

\* int() takes an optional sign in front of the digits
Unsigned(s) ==
    LET t == Strip(s)
    IN  IF StartsWith(t, "+") \/ StartsWith(t, "-") THEN From(t, 2) ELSE t

\* int() takes single underscores between digits
Grouped(t, digits) ==
    /\ Len(t) > 0
    /\ \A i \in 1..Len(t) : Ch(t, i) \in digits \cup {"_"}
    /\ Ch(t, 1) # "_"
    /\ Ch(t, Len(t)) # "_"
    /\ \A i \in 1..(Len(t) - 1) : ~(Ch(t, i) = "_" /\ Ch(t, i + 1) = "_")

RECURSIVE Ungrouped(_)
Ungrouped(t) ==
    IF Len(t) = 0 THEN ""
    ELSE IF Ch(t, 1) = "_" THEN Ungrouped(From(t, 2))
    ELSE SubSeq(t, 1, 1) \o Ungrouped(From(t, 2))

\* whether int(s) succeeds (otherwise it raises ValueError)
IntOk(s) == Grouped(Unsigned(s), DecDigits)

\* int(s)
ParseInt(s) ==
    LET n == DigitsVal(Ungrouped(Unsigned(s)), 10)
    IN  IF StartsWith(Strip(s), "-") THEN 0 - n ELSE n

\* the digits of s for int(s, 16): an optional 0x prefix is dropped, and one
\* underscore may follow the prefix
HexBody(s) ==
    LET t == Unsigned(s)
    IN  IF StartsWith(t, "0x") \/ StartsWith(t, "0X")
        THEN IF StartsWith(From(t, 3), "_") THEN From(t, 4) ELSE From(t, 3)
        ELSE t

\* whether int(s, 16) succeeds
HexOk(s) == Grouped(HexBody(s), HexDigits)

\* int(s, 16)
ParseHex(s) ==
    LET n == DigitsVal(Ungrouped(HexBody(s)), 16)
    IN  IF StartsWith(Strip(s), "-") THEN 0 - n ELSE n

(***************************************************************************)
(* Optional values: None is <<>>, a value v is <<v>>.                      *)
(***************************************************************************)
None == <<>>

Some(v) == <<v>>

(***************************************************************************)
(* The marker (lines 123-126).                                             *)
(***************************************************************************)
\* a variant that never takes the early return of line 126
MarkerMissing_Never(end) == FALSE

\* line 124: content.find did not find the marker
MarkerMissing(end) == end = -1

(***************************************************************************)
(* The module table (lines 137-176).                                       *)
(***************************************************************************)
\* a variant that never takes the early return of line 176
TargetMissing_Never(target) == FALSE

\* line 174: not target_module
TargetMissing(target) == target = None

\* line 146: the line is taken for a module row
IsModuleRow(line) ==
    \/ StartsWith(Strip(line), "0,")
    \/ (Strip(line) # "" /\ Ch(Strip(line), 1) \in DecDigits)

\* line 147: [p.strip() for p in line.split(",")]
RowParts(line) ==
    LET raw == Split(line, ",") IN [i \in 1..Len(raw) |-> Strip(raw[i])]

\* lines 148-152: the row has its ten fields and its numbers parse;
\* otherwise the row is skipped (too short, or ValueError caught at 171)
RowAccepted(parts) ==
    /\ Len(parts) >= 10
    /\ IntOk(parts[1])
    /\ HexOk(parts[3])
    /\ HexOk(parts[4])

\* a variant that takes the end address as the size
RowModule_SizeEnd(parts) ==
    [ id    |-> ParseInt(parts[1]),
      start |-> ParseHex(parts[3]),
      end   |-> ParseHex(parts[4]),
      size  |-> ParseHex(parts[4]),
      path  |-> parts[10] ]

\* lines 150-162: the module a row yields
RowModule(parts) ==
    [ id    |-> ParseInt(parts[1]),
      start |-> ParseHex(parts[3]),
      end   |-> ParseHex(parts[4]),
      size  |-> ParseHex(parts[4]) - ParseHex(parts[3]),
      path  |-> parts[10] ]

LowerCh(c) ==
    CASE c = "A" -> "a" [] c = "B" -> "b" [] c = "C" -> "c" [] c = "D" -> "d"
      [] c = "E" -> "e" [] c = "F" -> "f" [] c = "G" -> "g" [] c = "H" -> "h"
      [] c = "I" -> "i" [] c = "J" -> "j" [] c = "K" -> "k" [] c = "L" -> "l"
      [] c = "M" -> "m" [] c = "N" -> "n" [] c = "O" -> "o" [] c = "P" -> "p"
      [] c = "Q" -> "q" [] c = "R" -> "r" [] c = "S" -> "s" [] c = "T" -> "t"
      [] c = "U" -> "u" [] c = "V" -> "v" [] c = "W" -> "w" [] c = "X" -> "x"
      [] c = "Y" -> "y" [] c = "Z" -> "z" [] OTHER -> c

\* s.lower()
RECURSIVE Lower(_)
Lower(s) == IF Len(s) = 0 THEN "" ELSE LowerCh(Ch(s, 1)) \o Lower(From(s, 2))

\* a variant of the path test that ignores the letter case
PathMatches_AnyCase(path) == Contains(Lower(path), TargetName)

\* line 165: the path test
PathMatches(path) == Contains(path, TargetName) \/ Contains(path, TargetName)

\* lines 156 and 166: the target module after a row is accepted; every
\* matching row assigns it
TargetAfterRow(target, mod) ==
    IF PathMatches(mod.path) THEN Some(mod) ELSE target

\* a variant that forgets the rows parsed before
ModulesAfterRow_Reset(mods, mod) == [k \in {mod.id} |-> mod]

\* line 156: modules[mod_id] = {...}, a dict keyed by the module id
ModulesAfterRow(mods, mod) ==
    [k \in (DOMAIN mods) \cup {mod.id} |-> IF k = mod.id THEN mod ELSE mods[k]]

\* lines 140-142: what a "Module Table:" line does to module_count; the
\* result is None when int() raises ValueError
ModuleCountAfter(count, line) ==
    LET parts == Split(line, "count")
    IN  IF Len(parts) > 1
        THEN IF IntOk(parts[2]) THEN Some(ParseInt(parts[2])) ELSE None
        ELSE Some(count)

(***************************************************************************)
(* The record header line (lines 179-190).                                 *)
(***************************************************************************)
\* line 180: content.find(b"\n", bb_header_start) + 1
HeaderEnd(text, start) == Find(text, "\n", start) + 1

\* line 181: content[bb_header_start:bb_header_end]
HeaderLine(text, start) == SubSeq(text, start + 1, HeaderEnd(text, start))

\* lines 187-188: the 0-based index of the first token "bbs" that is not the
\* first token, or -1
BbsIndex(parts) ==
    LET hits == { i \in 2..Len(parts) : parts[i] = "bbs" }
    IN  IF hits = {} THEN -1
        ELSE (CHOOSE i \in hits : \A j \in hits : i <= j) - 1

\* lines 184-190: bb_count, or None when int() raises ValueError
BBCount(bb_header) ==
    LET parts == SplitWS(bb_header)
        i == BbsIndex(parts)
    IN  IF Contains(bb_header, Marker) /\ i # -1
        THEN IF IntOk(parts[i]) THEN Some(ParseInt(parts[i])) ELSE None
        ELSE Some(0)

(***************************************************************************)
(* The binary records (lines 211-236).                                     *)
(***************************************************************************)
\* struct.unpack_from("<I", data, off)[0]
unpack_I(data, off) ==
    data[off + 1] + 256 * data[off + 2] + 65536 * data[off + 3]
        + 16777216 * data[off + 4]

\* struct.unpack_from("<H", data, off)[0]
unpack_H(data, off) == data[off + 1] + 256 * data[off + 2]

\* a variant with the layout of the comment at lines 200-202: module id,
\* start offset, size
DecodeEntryAt_ModuleFirst(data, off) ==
    [ module_id |-> unpack_H(data, off),
      offset    |-> unpack_I(data, off + 2),
      size      |-> unpack_H(data, off + 6) ]

\* lines 214-222: the entry at byte offset off
DecodeEntryAt(data, off) ==
    [ module_id |-> unpack_H(data, off + 6),
      offset    |-> unpack_I(data, off),
      size      |-> unpack_H(data, off + 4) ]

\* a variant of the loop condition that ignores bb_count
DecodeGuard_NoCount(data, off, entries, count) == off + entry_size <= Len(data)

\* line 211: the loop condition
DecodeGuard(data, off, entries, count) ==
    off + entry_size <= Len(data) /\ Len(entries) < count

\* a variant that takes every record for a target record
IsTargetEntry_Any(entry, target) == TRUE

\* line 225: the record is from the target module
IsTargetEntry(entry, target) == entry.module_id = target.id

\* lines 231-232: the bytes one block covers
BlockBytes(entry) == { entry.offset + i : i \in 0..(entry.size - 1) }

\* a variant that keeps only the last block's bytes
AddCovered_Replace(covered, entry) == BlockBytes(entry)

\* lines 231-232: target_bytes_covered after the block's bytes are added
AddCovered(covered, entry) == covered \cup BlockBytes(entry)

(***************************************************************************)
(* objdump, the inspection collaborator. What subprocess.run gives is      *)
(* None when it raises (no objdump, a timeout) and Some(stdout) otherwise. *)
(***************************************************************************)
\* lines 48-55: the scan of the section headers from line i on; None is the
\* fall through to the fallback (no usable .text line, or ValueError caught)
RECURSIVE TextLineScan(_, _)
TextLineScan(lines, i) ==
    IF i > Len(lines) THEN None
    ELSE LET parts == SplitWS(lines[i])
         IN  IF Contains(lines[i], ".text") /\ Len(parts) >= 4
             THEN IF HexOk(parts[4]) /\ HexOk(parts[3])
                  THEN Some(<<ParseHex(parts[4]), ParseHex(parts[3])>>)
                  ELSE None
             ELSE TextLineScan(lines, i + 1)

\* a variant with no fallback size: nothing found yields (0, 0)
get_text_section_info_NoFallback(run) ==
    LET found == IF run = None THEN None
                 ELSE TextLineScan(Split(run[1], "\n"), 1)
    IN  IF found = None THEN <<0, 0>> ELSE found[1]

\* lines 36-60: get_text_section_info, (start address, size)
get_text_section_info(run) ==
    LET found == IF run = None THEN None
                 ELSE TextLineScan(Split(run[1], "\n"), 1)
    IN  IF found = None THEN <<0, FallbackTextSize>> ELSE found[1]

\* line 100: exports[name] = addr on a dict that keeps insertion order
DictSet(d, name, addr) ==
    IF \E k \in 1..Len(d) : d[k].name = name
    THEN [k \in 1..Len(d) |->
             IF d[k].name = name THEN [name |-> name, addr |-> addr] ELSE d[k]]
    ELSE Append(d, [name |-> name, addr |-> addr])

\* line 84: a header line of the export table
IsExportHeaderLine(line) ==
    Contains(line, "DLL name:") \/ Contains(line, "Ordinal base:")
        \/ Contains(line, "Ordinal")

\* a variant that takes decorated names too
ExportLineAdds_Decorated(exports, line) ==
    LET parts == SplitWS(line)
    IN  IF /\ Len(parts) >= 3
           /\ StartsWith(parts[2], "0x")
           /\ HexOk(parts[2])
        THEN DictSet(exports, parts[3], ParseHex(parts[2]))
        ELSE exports

\* lines 90-102: what one entry line adds to exports
ExportLineAdds(exports, line) ==
    LET parts == SplitWS(line)
    IN  IF /\ Len(parts) >= 3
           /\ StartsWith(parts[2], "0x")
           /\ HexOk(parts[2])
           /\ ~Contains(parts[3], "@")
        THEN DictSet(exports, parts[3], ParseHex(parts[2]))
        ELSE exports

\* lines 78-102: the loop over the dump's lines
RECURSIVE ExportScan(_, _, _, _)
ExportScan(lines, i, in_export_table, exports) ==
    IF i > Len(lines) THEN exports
    ELSE IF Contains(lines[i], "Export Table:")
         THEN ExportScan(lines, i + 1, TRUE, exports)
    ELSE IF ~in_export_table
         THEN ExportScan(lines, i + 1, FALSE, exports)
    ELSE IF IsExportHeaderLine(lines[i])
         THEN ExportScan(lines, i + 1, TRUE, exports)
    ELSE IF Strip(lines[i]) = ""
         THEN exports
    ELSE ExportScan(lines, i + 1, TRUE, ExportLineAdds(exports, lines[i]))

\* lines 63-106: get_export_addresses, name -> RVA in insertion order
get_export_addresses(run) ==
    IF run = None THEN <<>>
    ELSE ExportScan(Split(run[1], "\n"), 1, FALSE, <<>>)

\* func_name in export_addrs
HasExport(export_addrs, name) ==
    \E k \in 1..Len(export_addrs) : export_addrs[k].name = name

\* export_addrs[func_name]
ExportAddr(export_addrs, name) ==
    LET k == CHOOSE k \in 1..Len(export_addrs) : export_addrs[k].name = name
    IN  export_addrs[k].addr

(***************************************************************************)
(* Export coverage (lines 266-285).                                        *)
(***************************************************************************)
\* a variant with an inclusive threshold
BlockNear_Inclusive(bb_offset, func_addr) == Abs(bb_offset - func_addr) <= HitThreshold

\* line 271: one block is near the export
BlockNear(bb_offset, func_addr) == Abs(bb_offset - func_addr) < HitThreshold

\* lines 270-273: func_hit
FuncHit(func_addr, bbs) ==
    \E k \in 1..Len(bbs) : BlockNear(bbs[k].offset, func_addr)

\* a variant that takes a function absent from the table as hit
ExportStatus_AbsentHit(export_addrs, bbs, name) ==
    IF HasExport(export_addrs, name)
    THEN IF FuncHit(ExportAddr(export_addrs, name), bbs) THEN "hit" ELSE "not_hit"
    ELSE "hit"

\* lines 267-282: the line printed for one expected function
ExportStatus(export_addrs, bbs, name) ==
    IF HasExport(export_addrs, name)
    THEN IF FuncHit(ExportAddr(export_addrs, name), bbs) THEN "hit" ELSE "not_hit"
    ELSE "not_found"

\* lines 266-282: the status of every expected function
ExportStatuses(export_addrs, bbs) ==
    [k \in 1..Len(EXPORT_FUNCTIONS) |->
        ExportStatus(export_addrs, bbs, EXPORT_FUNCTIONS[k])]

\* a variant that counts a function absent from the table as hit
CountHit_Absent(statuses) ==
    Cardinality({k \in DOMAIN statuses : statuses[k] \in {"hit", "not_found"}})

\* lines 263 and 275: exports_hit
CountHit(statuses) == Cardinality({k \in DOMAIN statuses : statuses[k] = "hit"})

\* lines 264, 278 and 281: exports_missed
MissedNames(statuses) ==
    LET idx == SelectSeq([k \in DOMAIN statuses |-> k],
                         LAMBDA k : statuses[k] # "hit")
    IN  [k \in 1..Len(idx) |-> EXPORT_FUNCTIONS[idx[k]]]

\* a quotient a / b that Python computes in floating point, kept exact
Ratio(a, b) == [num |-> a, den |-> b]

(***************************************************************************)
(* Application code coverage and gaps (lines 296-350).                     *)
(***************************************************************************)
ExportRvas(export_addrs) == { export_addrs[k].addr : k \in 1..Len(export_addrs) }

\* line 297: min(export_addrs.values())
ExportMin(export_addrs) ==
    CHOOSE a \in ExportRvas(export_addrs) : \A b \in ExportRvas(export_addrs) : a <= b

\* line 298: max(export_addrs.values()) + 0x200
ExportMax(export_addrs) ==
    (CHOOSE a \in ExportRvas(export_addrs) : \A b \in ExportRvas(export_addrs) : a >= b)
        + TailAllowance

\* a variant that keeps the bytes outside the window
AppBytesCovered_All(bbs, export_min, export_max) ==
    UNION { BlockBytes(bbs[k]) : k \in 1..Len(bbs) }

\* lines 300-305: the covered bytes of the target blocks inside the window
AppBytesCovered(bbs, export_min, export_max) ==
    { a \in UNION { BlockBytes(bbs[k]) : k \in 1..Len(bbs) } :
        export_min <= a /\ a < export_max }

\* line 306: app_coverage
AppCoverage(in_window, app_code_size) ==
    IF app_code_size > 0
    THEN Ratio(100 * Cardinality(in_window), app_code_size)
    ELSE Ratio(0, 1)

\* lines 314-315: sorted(set(range(export_min, export_max)) - covered)
Uncovered(export_min, export_max, covered) ==
    SelectSeq([i \in 1..(export_max - export_min) |-> export_min + i - 1],
              LAMBDA a : a \notin covered)

\* lines 322-327: the body of the loop over uncovered[1:]
GapStep(st, addr) ==
    IF addr = st.gap_end + 1
    THEN [st EXCEPT !.gap_end = addr]
    ELSE [ gap_start |-> addr,
           gap_end   |-> addr,
           gaps      |-> Append(st.gaps, << st.gap_start, st.gap_end,
                                            st.gap_end - st.gap_start + 1 >>) ]

\* lines 321-327: the loop body applied to uncovered[i..j] in order. The range
\* is halved, and the state after the first half is evaluated before the
\* second half starts, so that the evaluation stays shallow.
RECURSIVE GapLoop(_, _, _, _)
GapLoop(uncovered, i, j, st) ==
    IF i > j THEN st
    ELSE IF i = j THEN GapStep(st, uncovered[i])
    ELSE LET mid == (i + j) \div 2
             left == GapLoop(uncovered, i, mid, st)
         IN  IF left.gap_start <= left.gap_end
             THEN GapLoop(uncovered, mid + 1, j, left)
             ELSE left

\* lines 318-328: the gaps of a non-empty sorted list, in address order
GroupGaps(uncovered) ==
    LET st == GapLoop(uncovered, 2, Len(uncovered),
                      [ gap_start |-> uncovered[1], gap_end |-> uncovered[1],
                        gaps |-> <<>> ])
    IN  Append(st.gaps, << st.gap_start, st.gap_end, st.gap_end - st.gap_start + 1 >>)

\* a variant that ranks the shortest gap first
GapKey_Ascending(gap) == gap[3]

\* the sort key of line 331
GapKey(gap) == -gap[3]

\* one step of the stable sort: gap goes behind every gap whose key is not
\* larger
InsertGap(sorted, gap) ==
    LET before == { k \in 1..Len(sorted) : GapKey(sorted[k]) <= GapKey(gap) }
        n == Cardinality(before)
    IN  SubSeq(sorted, 1, n) \o <<gap>> \o SubSeq(sorted, n + 1, Len(sorted))

\* line 331: gaps.sort(key=lambda x: -x[2]), a stable sort
RECURSIVE SortGaps(_)
SortGaps(gaps) ==
    IF Len(gaps) = 0 THEN <<>>
    ELSE InsertGap(SortGaps(SubSeq(gaps, 1, Len(gaps) - 1)), gaps[Len(gaps)])

\* lines 314-331: the ranked gaps of the window [export_min, export_max)
ComputeGaps(export_min, export_max, covered) ==
    LET uncovered == Uncovered(export_min, export_max, covered)
    IN  IF Len(uncovered) = 0 THEN <<>>
        ELSE SortGaps(GroupGaps(uncovered))

\* one step of the stable sort of line 336
InsertExport(sorted, e) ==
    LET n == Cardinality({ k \in 1..Len(sorted) : sorted[k].addr <= e.addr })
    IN  SubSeq(sorted, 1, n) \o <<e>> \o SubSeq(sorted, n + 1, Len(sorted))

\* line 336: sorted(export_addrs.items(), key=lambda x: x[1])
RECURSIVE SortExports(_)
SortExports(export_addrs) ==
    IF Len(export_addrs) = 0 THEN <<>>
    ELSE InsertExport(SortExports(SubSeq(export_addrs, 1, Len(export_addrs) - 1)),
                      export_addrs[Len(export_addrs)])

\* a variant that stops at the first export not above start
ContainsGapStart_First(sorted_exports, j, start) ==
    sorted_exports[j].addr <= start

\* a variant without the branch for the last export
ContainsGapStart_NoLast(sorted_exports, j, start) ==
    /\ sorted_exports[j].addr <= start
    /\ j + 1 <= Len(sorted_exports)
    /\ sorted_exports[j + 1].addr > start

\* lines 341-347: the scan stops at export j
ContainsGapStart(sorted_exports, j, start) ==
    /\ sorted_exports[j].addr <= start
    /\ \/ (j + 1 <= Len(sorted_exports) /\ sorted_exports[j + 1].addr > start)
       \/ j + 1 > Len(sorted_exports)

\* lines 339-347: containing_func of a gap that starts at start
ContainingFunc(sorted_exports, start) ==
    LET hits == { j \in 1..Len(sorted_exports) :
                    ContainsGapStart(sorted_exports, j, start) }
    IN  IF hits = {} THEN "unknown"
        ELSE sorted_exports[CHOOSE j \in hits : \A k \in hits : j <= k].name

\* lines 337-348: containing_func for gaps[:10]
GapFuncs(export_addrs, gaps) ==
    [k \in 1..Min(TopGaps, Len(gaps)) |->
        ContainingFunc(SortExports(export_addrs), gaps[k][1])]

(***************************************************************************)
(* The traces the runs read. A trace is written from a prologue, a header  *)
(* line and a list of records; Encode is the writer's side of the record   *)
(* layout.                                                                 *)
(***************************************************************************)
U32LE(n) == << n % 256, (n \div 256) % 256, (n \div 65536) % 256,
               (n \div 16777216) % 256 >>

U16LE(n) == << n % 256, (n \div 256) % 256 >>

\* one record as the tracer writes it: offset, size, module id
Encode(rec) == U32LE(rec.offset) \o U16LE(rec.size) \o U16LE(rec.module_id)

RECURSIVE EncodeAll(_)
EncodeAll(recs) ==
    IF Len(recs) = 0 THEN <<>> ELSE Encode(Head(recs)) \o EncodeAll(Tail(recs))

Rec(offset, size, module_id) ==
    [module_id |-> module_id, offset |-> offset, size |-> size]

\* the records the traces are written from: blocks of module 1 that overlap,
\* repeat and lie 255 and 256 bytes from the exports of ExportDumpA, a block
\* of module 0, and a record whose every field has more than one non-zero byte
SampleRecs ==
    << Rec(1000, 2, 1), Rec(1001, 3, 1), Rec(1000, 2, 0), Rec(1511, 1, 1),
       Rec(256, 16, 0), Rec(16909060, 513, 258) >>

\* the record streams of at most n records
RECURSIVE RecSeqs(_)
RecSeqs(n) ==
    IF n = 0 THEN { <<>> }
    ELSE RecSeqs(n - 1) \cup
         { Append(rs, SampleRecs[k]) :
             rs \in { r \in RecSeqs(n - 1) : Len(r) = n - 1 },
             k \in 1..Len(SampleRecs) }

\* a fixed stream of n records
FixedRecs(n) == [i \in 1..n |-> SampleRecs[((i - 1) % Len(SampleRecs)) + 1]]

PreambleText == "DRCOV VERSION: 2\nDRCOV FLAVOR: drcov\n"

Row(id, start, end, path) ==
    " " \o id \o ", " \o id \o ", " \o start \o ", " \o end
        \o ", 0x0, 0, 0x0, 0x0, 0x5e3c, " \o path \o "\n"

OtherRow(id) == Row(id, "0x00400000", "0x00410000", "C:\\bin\\driver.exe")

TargetRow(id) == Row(id, "0x10000000", "0x10020000", "C:\\bin\\target.dll")

\* the table line with its count token, the line of column names, the rows
Prologue(tok, rows) ==
    PreambleText \o "Module Table: version 5, count " \o tok \o "\n"
        \o "Columns: id, containing_id, start, end, entry, offset, preferred_base, checksum, timestamp, path\n"
        \o rows

\* module 0 is the driver, module 1 the target
ProStd == Prologue("2", OtherRow("0") \o TargetRow("1"))

\* two rows match the target
ProTwo ==
    Prologue("2", TargetRow("0")
                  \o Row("1", "0x10020000", "0x10021000", "C:\\bin\\target.dll"))

\* no row matches
ProNoTarget == Prologue("1", OtherRow("0"))

\* the target's file name in other letter cases
ProUpper ==
    Prologue("2", OtherRow("0") \o Row("1", "0x10000000", "0x10020000", "C:\\BIN\\TARGET.DLL"))

\* a count token that is no number
ProBadCount == Prologue("two", OtherRow("0") \o TargetRow("1"))

\* a target row with start = end
ProEmptyTarget ==
    Prologue("1", Row("1", "0x10000000", "0x10000000", "C:\\bin\\target.dll"))

\* the same rows behind a row that is accepted
ProSkippedAfter ==
    Prologue("4", TargetRow("1")
                  \o " 1, 1, 0x10000000, 0x10020000, 0x0, 0, 0x0, 0x0, C:\\bin\\other.dll\n"
                  \o Row("1a", "0x10000000", "0x10020000", "C:\\bin\\other.dll")
                  \o Row("1", "0x1000000g", "0x10020000", "C:\\bin\\other.dll"))

\* every prologue: the named ones; the target's name in mixed case; a
\* lower-case row of module 0 before an upper-case row of module 1; a count
\* token that is no number and no target; rows that are skipped (nine
\* fields, an id and an address that do not parse); the table line of an
\* older format, with no count word
Prologues ==
    { ProStd, ProTwo, ProNoTarget, ProUpper, ProBadCount, ProEmptyTarget,
      ProSkippedAfter,
      Prologue("2", OtherRow("0")
                    \o Row("1", "0x10000000", "0x10020000", "C:\\bin\\Target.Dll")),
      Prologue("2", TargetRow("0")
                    \o Row("1", "0x10000000", "0x10020000", "C:\\BIN\\TARGET.DLL")),
      Prologue("two", OtherRow("0")),
      Prologue("4", " 1, 1, 0x10000000, 0x10020000, 0x0, 0, 0x0, 0x0, C:\\bin\\target.dll\n"
                    \o Row("1a", "0x10000000", "0x10020000", "C:\\bin\\target.dll")
                    \o Row("1", "0x1000000g", "0x10020000", "C:\\bin\\target.dll")
                    \o OtherRow("0")),
      PreambleText \o "Module Table: 2\n" \o OtherRow("0") \o TargetRow("1") }

HeaderText(tok) == Marker \o " " \o tok \o " bbs\n"

\* header lines: a token that is no number, no "bbs" word, no newline, and
\* counts written with a sign, which int() takes
OddHeaders ==
    { HeaderText("many"), Marker \o " 2\n", Marker \o " 2 bbs",
      HeaderText("-1"), HeaderText("+1") }

\* a trace: its bytes (text and binary), and what it was written from
Trace(text, recs, tail) ==
    [ text   |-> text,
      binary |-> EncodeAll(recs) \o SubSeq(Encode(Rec(1002, 1, 1)), 1, tail),
      recs   |-> recs,
      tail   |-> tail ]

\* every record stream, declared with its own length, behind ProStd
DecodeTraces ==
    { Trace(ProStd \o HeaderText(ToString(Len(recs))), recs, 0) :
        recs \in RecSeqs(MaxRecs) }

\* streams cut short or running over the declared count
TruncatedTraces ==
    { Trace(ProStd \o HeaderText(ToString(c)), FixedRecs(n), t) :
        c \in 0..(MaxRecs + 1), n \in 0..MaxRecs, t \in 0..MaxTail }

\* every prologue, with and without the marker line
PrologueTraces ==
    { Trace(pro \o HeaderText("2"), FixedRecs(2), 0) : pro \in Prologues }
        \cup { Trace(pro, FixedRecs(2), 0) : pro \in Prologues }
        \cup { Trace(ProTwo \o HeaderText("2"), recs, 0) :
                 recs \in { r \in RecSeqs(2) : Len(r) = 2 } }

OddHeaderTraces == { Trace(ProStd \o h, FixedRecs(2), 0) : h \in OddHeaders }

\* the target is the only module, with id 0, and one block of 16 bytes at
\* 0x100 is recorded for it
ScenarioTraces ==
    { Trace(Prologue("1", TargetRow("0")) \o HeaderText("1"), << Rec(256, 16, 0) >>, 0) }

\* the target is 8 bytes long and the block recorded for it lies at 0x100
OutsideTraces ==
    { Trace(Prologue("1", Row("0", "0x10000000", "0x10000008", "C:\\bin\\target.dll"))
                \o HeaderText("1"),
            << Rec(256, 16, 0) >>, 0) }

Traces ==
    DecodeTraces \cup TruncatedTraces \cup PrologueTraces \cup OddHeaderTraces
        \cup ScenarioTraces \cup OutsideTraces

(***************************************************************************)
(* What objdump prints.                                                    *)
(***************************************************************************)
SectionDump ==
    "\ntarget.dll:     file format pei-i386\n\nSections:\n"
        \o "Idx Name          Size      VMA       LMA       File off  Algn\n"
        \o "  0 .text         00029000  10001000  10001000  00000400  2**4\n"
        \o "  1 .rdata        00008000  1002b000  1002b000  00029400  2**4\n"

\* subprocess.run of objdump -h: it raises (the program is missing or times
\* out), it fails and prints nothing on stdout, or it prints the section
\* headers
SectionRuns == { None, Some(""), Some(SectionDump) }

ExportDumpHead ==
    "target.dll:\tfile format coff-i386\n\nExport Table:\n DLL name: target.dll\n"
        \o " Ordinal base: 1\n Ordinal      RVA  Name\n"

ExportLine(ordinal, rva, name) ==
    "       " \o ordinal \o "   " \o rva \o "  " \o name \o "\n"

\* exports at 1256, 1255, 745 and 744: a block at 1000 lies 256 and 255 bytes
\* below the first two and 255 and 256 bytes above the last two
ExportDumpA ==
    ExportDumpHead
        \o ExportLine("1", "0x4e8", "Aud_InitDll")
        \o ExportLine("2", "0x4e7", "Aud_GetDllVersion")
        \o ExportLine("3", "0x2e9", "Aud_GetString")
        \o ExportLine("4", "0x2e8", "Aud_PutString")
        \o ExportLine("5", "0x4e8", "_Aud_InitDll@4")
        \o "\nImport Table:\n"

\* one export, at 0x100
ExportDumpB ==
    ExportDumpHead \o ExportLine("1", "0x100", "Aud_InitDll") \o "\n"

\* subprocess.run of objdump -p: it raises, it fails and prints nothing on
\* stdout, or it prints the export table
ExportRuns == { None, Some(""), Some(ExportDumpA), Some(ExportDumpB) }

(***************************************************************************)
(* The state of one run of parse_drcov_file.                               *)
(***************************************************************************)
VARIABLES
    content,               \* the bytes of the trace file, and its source
    pc,                    \* the stage the run is at
    outcome,               \* "running", "returned" or "raised"
    report,                \* the returned value: None or Some(report)
    text_end,              \* line 123
    lines,                 \* line 130
    line_no,               \* the lines of the prologue already looped over
    module_count,          \* line 135
    modules,               \* line 133
    target_module,         \* line 134: None or Some(module)
    bb_count,              \* line 184
    binary_data,           \* line 196
    bb_entries,            \* line 204
    target_bbs,            \* line 205
    target_bytes_covered,  \* line 206
    offset,                \* line 208
    section,               \* line 249: <<text_vma, code_section_size>>
    coverage,              \* lines 252-253: <<coverage_of_total, coverage_of_code>>
    export_addrs,          \* line 262
    export_status,         \* the status printed for each expected function
    exports_hit,           \* line 263
    exports_missed,        \* line 264
    export_window,         \* lines 297-298: <<export_min, export_max>>
    app_bytes_covered,     \* line 300
    app_coverage,          \* lines 306 and 350
    gaps,                  \* line 318, ranked
    gap_funcs,             \* line 339, for the gaps printed
    objdump_calls,         \* the subprocess.run calls made so far
    objdump_runs,          \* what each of these calls did: None or Some(stdout)
    test_pc,               \* tests/parity_test.py: where the test code is at
    dll_calls,             \* the calls made into the DLLs so far, with what they returned
    challenge,             \* init_dll_full: line 145
    result,                \* init_dll_full: lines 149 and 154
    init_return,           \* init_dll_full: None or Some(success)
    orig_open,             \* test_file_io_parity: line 275
    rebuilt_open,          \* lines 276 and 364
    passed,                \* results["passed"]
    test_returned          \* the test function has returned its results

\* the variables of tests/parity_test.py
test_vars ==
    << test_pc, dll_calls, challenge, result, init_return, orig_open,
       rebuilt_open, passed, test_returned >>

\* no test of tests/parity_test.py is running
TestIdle ==
    /\ test_pc = "idle"
    /\ dll_calls = <<>>
    /\ challenge = 0
    /\ result = 0
    /\ init_return = None
    /\ orig_open = 0
    /\ rebuilt_open = 0
    /\ passed = TRUE
    /\ test_returned = FALSE

vars ==
    << content, pc, outcome, report, text_end, lines, line_no, module_count,
       modules, target_module, bb_count, binary_data, bb_entries, target_bbs,
       target_bytes_covered, offset, section, coverage, export_addrs,
       export_status, exports_hit, exports_missed, export_window,
       app_bytes_covered, app_coverage, gaps, gap_funcs, objdump_calls, objdump_runs, test_vars >>

prologue_vars == << text_end, lines, line_no, module_count, modules, target_module >>

decode_vars ==
    << bb_count, binary_data, bb_entries, target_bbs, target_bytes_covered, offset >>

correlate_vars ==
    << section, coverage, export_addrs, export_status, exports_hit,
       exports_missed, export_window, app_bytes_covered, app_coverage, gaps,
       gap_funcs >>

\* the variables of analyze_drcov.py
analysis_vars ==
    << content, pc, outcome, report, prologue_vars, decode_vars,
       correlate_vars, objdump_calls, objdump_runs >>

\* the locals before parse_drcov_file assigns them
AnalysisLocals ==
    /\ outcome = "running"
    /\ report = None
    /\ text_end = 0
    /\ lines = <<>>
    /\ line_no = 0
    /\ module_count = 0
    /\ modules = <<>>
    /\ target_module = None
    /\ bb_count = 0
    /\ binary_data = <<>>
    /\ bb_entries = <<>>
    /\ target_bbs = <<>>
    /\ target_bytes_covered = {}
    /\ offset = 0
    /\ section = <<0, 0>>
    /\ coverage = <<Ratio(0, 1), Ratio(0, 1)>>
    /\ export_addrs = <<>>
    /\ export_status = <<>>
    /\ exports_hit = 0
    /\ exports_missed = <<>>
    /\ app_coverage = Ratio(0, 1)
    /\ gaps = <<>>
    /\ gap_funcs = <<>>
    /\ objdump_calls = 0
    /\ objdump_runs = <<>>

InitLocals == AnalysisLocals /\ TestIdle

Init ==
    /\ content \in Traces
    /\ pc = "open"
    /\ export_window = <<0, 0>>
    /\ app_bytes_covered = {}
    /\ InitLocals

\* return value
Return(value) ==
    /\ pc' = "done"
    /\ outcome' = "returned"
    /\ report' = value

\* an exception nothing catches
Raise ==
    /\ pc' = "done"
    /\ outcome' = "raised"
    /\ report' = None

\* lines 119-130: read the file, find the marker, split the prologue
FindMarker ==
    /\ pc = "open"
    /\ text_end' = Find(content.text, Marker, 0)
    /\ IF MarkerMissing(text_end')
       THEN /\ Return(None)
            /\ UNCHANGED lines
       ELSE /\ lines' = Split(Strip(SubSeq(content.text, 1, text_end')), "\n")
            /\ pc' = "modules"
            /\ UNCHANGED << outcome, report >>
    /\ UNCHANGED << content, line_no, module_count, modules, target_module,
                    decode_vars, correlate_vars, objdump_calls, objdump_runs, test_vars >>

\* lines 137-172: one iteration of the loop over the prologue's lines
ParseLine ==
    /\ pc = "modules"
    /\ line_no < Len(lines)
    /\ line_no' = line_no + 1
    /\ LET line == lines[line_no + 1]
           parts == RowParts(line)
       IN  IF StartsWith(line, "Module Table:")
           THEN LET count == ModuleCountAfter(module_count, line)
                IN  IF count = None
                    THEN /\ Raise
                         /\ UNCHANGED << module_count, modules, target_module >>
                    ELSE /\ module_count' = count[1]
                         /\ UNCHANGED << pc, outcome, report, modules, target_module >>
           ELSE IF IsModuleRow(line) /\ RowAccepted(parts)
                THEN /\ modules' = ModulesAfterRow(modules, RowModule(parts))
                     /\ target_module' = TargetAfterRow(target_module, RowModule(parts))
                     /\ UNCHANGED << pc, outcome, report, module_count >>
                ELSE UNCHANGED << pc, outcome, report, module_count, modules,
                                  target_module >>
    /\ UNCHANGED << content, text_end, lines, decode_vars, correlate_vars,
                    objdump_calls, objdump_runs, test_vars >>

\* lines 174-176: after the loop, the run ends if no target was found
ResolveTarget ==
    /\ pc = "modules"
    /\ line_no = Len(lines)
    /\ IF TargetMissing(target_module)
       THEN Return(None)
       ELSE /\ pc' = "bb_header"
            /\ UNCHANGED << outcome, report >>
    /\ UNCHANGED << content, prologue_vars, decode_vars, correlate_vars,
                    objdump_calls, objdump_runs, test_vars >>

\* lines 179-208: the header line, bb_count and the binary suffix. With no
\* newline behind the marker bb_header is empty, bb_count is 0 and no byte of
\* binary_data is ever read.
ParseBBHeader ==
    /\ pc = "bb_header"
    /\ LET count == BBCount(HeaderLine(content.text, text_end))
       IN  IF count = None
           THEN /\ Raise
                /\ UNCHANGED << bb_count, binary_data >>
           ELSE /\ bb_count' = count[1]
                /\ binary_data' = content.binary
                /\ pc' = "decode"
                /\ UNCHANGED << outcome, report >>
    /\ UNCHANGED << content, prologue_vars, bb_entries, target_bbs,
                    target_bytes_covered, offset, correlate_vars, objdump_calls, objdump_runs, test_vars >>

\* lines 211-234: one iteration of the decode loop
DecodeEntry ==
    /\ pc = "decode"
    /\ DecodeGuard(binary_data, offset, bb_entries, bb_count)
    /\ LET entry == DecodeEntryAt(binary_data, offset)
       IN  /\ bb_entries' = Append(bb_entries, entry)
           /\ IF IsTargetEntry(entry, target_module[1])
              THEN /\ target_bbs' =
                         Append(target_bbs, [offset |-> entry.offset, size |-> entry.size])
                   /\ target_bytes_covered' = AddCovered(target_bytes_covered, entry)
              ELSE UNCHANGED << target_bbs, target_bytes_covered >>
    /\ offset' = offset + entry_size
    /\ UNCHANGED << content, pc, outcome, report, prologue_vars, bb_count,
                    binary_data, correlate_vars, objdump_calls, objdump_runs, test_vars >>

\* line 211: the loop ends
DecodeDone ==
    /\ pc = "decode"
    /\ ~DecodeGuard(binary_data, offset, bb_entries, bb_count)
    /\ pc' = "coverage"
    /\ UNCHANGED << content, outcome, report, prologue_vars, decode_vars,
                    correlate_vars, objdump_calls, objdump_runs, test_vars >>

\* lines 245-253: the section lookup and the two coverage quotients; a
\* division by zero raises ZeroDivisionError
SectionCoverage ==
    /\ pc = "coverage"
    /\ \E run \in SectionRuns :
         LET info == get_text_section_info(run)
             dll_size == target_module[1].size
             covered == Cardinality(target_bytes_covered)
         IN  /\ objdump_runs' = Append(objdump_runs, run)
             /\ section' = info
             /\ IF dll_size = 0 \/ info[2] = 0
                THEN /\ Raise
                     /\ UNCHANGED coverage
                ELSE /\ coverage' = << Ratio(100 * covered, dll_size),
                                       Ratio(100 * covered, info[2]) >>
                     /\ pc' = "exports"
                     /\ UNCHANGED << outcome, report >>
    /\ objdump_calls' = objdump_calls + 1
    /\ UNCHANGED << content, prologue_vars, decode_vars, export_addrs,
                    export_status, exports_hit, exports_missed, export_window,
                    app_bytes_covered, app_coverage, gaps, gap_funcs, test_vars >>

\* lines 262-285: the export table and the status of every expected function
ExportCoverage ==
    /\ pc = "exports"
    /\ \E run \in ExportRuns :
         LET addrs == get_export_addresses(run)
             statuses == ExportStatuses(addrs, target_bbs)
         IN  /\ objdump_runs' = Append(objdump_runs, run)
             /\ export_addrs' = addrs
             /\ export_status' = statuses
             /\ exports_hit' = CountHit(statuses)
             /\ exports_missed' = MissedNames(statuses)
    /\ objdump_calls' = objdump_calls + 1
    /\ pc' = "app"
    /\ UNCHANGED << content, outcome, report, prologue_vars, decode_vars,
                    section, coverage, export_window, app_bytes_covered,
                    app_coverage, gaps, gap_funcs, test_vars >>

\* lines 296-350: application code coverage, the gaps and their functions
AppCodeCoverage ==
    /\ pc = "app"
    /\ IF Len(export_addrs) > 0
       THEN LET export_min == ExportMin(export_addrs)
                export_max == ExportMax(export_addrs)
                in_window == AppBytesCovered(target_bbs, export_min, export_max)
                ranked == ComputeGaps(export_min, export_max, in_window)
            IN  /\ export_window' = <<export_min, export_max>>
                /\ app_bytes_covered' = in_window
                /\ app_coverage' = AppCoverage(in_window, export_max - export_min)
                /\ gaps' = ranked
                /\ gap_funcs' = GapFuncs(export_addrs, ranked)
       ELSE /\ app_coverage' = Ratio(0, 1)
            /\ UNCHANGED << export_window, app_bytes_covered, gaps, gap_funcs >>
    /\ pc' = "report"
    /\ UNCHANGED << content, outcome, report, prologue_vars, decode_vars,
                    section, coverage, export_addrs, export_status,
                    exports_hit, exports_missed, objdump_calls, objdump_runs, test_vars >>

\* a variant that returns coverage of total where the code returns coverage
\* of the code section
BuildReport_OfTotal ==
    /\ pc = "report"
    /\ Return(Some([ module               |-> target_module[1],
                     total_bbs            |-> bb_count,
                     target_bbs           |-> Len(target_bbs),
                     bytes_covered        |-> Cardinality(target_bytes_covered),
                     coverage_percent     |-> coverage[1],
                     app_coverage_percent |-> app_coverage,
                     export_coverage      |-> Ratio(100 * exports_hit, Len(EXPORT_FUNCTIONS)),
                     exports_hit          |-> exports_hit,
                     exports_total        |-> Len(EXPORT_FUNCTIONS) ]))
    /\ UNCHANGED << content, prologue_vars, decode_vars, correlate_vars,
                    objdump_calls, objdump_runs, test_vars >>

\* lines 352-362: the report
BuildReport ==
    /\ pc = "report"
    /\ Return(Some([ module               |-> target_module[1],
                     total_bbs            |-> bb_count,
                     target_bbs           |-> Len(target_bbs),
                     bytes_covered        |-> Cardinality(target_bytes_covered),
                     coverage_percent     |-> coverage[2],
                     app_coverage_percent |-> app_coverage,
                     export_coverage      |-> Ratio(100 * exports_hit, Len(EXPORT_FUNCTIONS)),
                     exports_hit          |-> exports_hit,
                     exports_total        |-> Len(EXPORT_FUNCTIONS) ]))
    /\ UNCHANGED << content, prologue_vars, decode_vars, correlate_vars,
                    objdump_calls, objdump_runs, test_vars >>

Next ==
    \/ FindMarker
    \/ ParseLine
    \/ ResolveTarget
    \/ ParseBBHeader
    \/ DecodeEntry
    \/ DecodeDone
    \/ SectionCoverage
    \/ ExportCoverage
    \/ AppCodeCoverage
    \/ BuildReport

Spec == Init /\ [][Next]_vars

(***************************************************************************)
(* The gap computation on its own: lines 314-331 applied to a window and a *)
(* set of covered bytes inside it.                                         *)
(***************************************************************************)
InitGaps ==
    /\ content = Trace("", <<>>, 0)
    /\ pc = "gap_input"
    /\ \E hi \in 1001..(1000 + MaxGapWindow) :
         /\ export_window = <<1000, hi>>
         /\ app_bytes_covered \in SUBSET (1000..(hi - 1))
    /\ InitLocals

GapAnalysis ==
    /\ pc = "gap_input"
    /\ gaps' = ComputeGaps(export_window[1], export_window[2], app_bytes_covered)
    /\ pc' = "gap_output"
    /\ UNCHANGED << content, outcome, report, prologue_vars, decode_vars,
                    section, coverage, export_addrs, export_status,
                    exports_hit, exports_missed, export_window,
                    app_bytes_covered, app_coverage, gap_funcs, objdump_calls, objdump_runs, test_vars >>

NextGaps == GapAnalysis

SpecGaps == InitGaps /\ [][NextGaps]_vars

(***************************************************************************)
(* Properties.                                                             *)
(***************************************************************************)
\* s.endswith(suf)
EndsWith(s, suf) ==
    Len(suf) <= Len(s) /\ SubSeq(s, Len(s) - Len(suf) + 1, Len(s)) = suf

\* the decode loop has ended
DecodeFinished ==
    \/ pc \in {"coverage", "exports", "app", "report"}
    \/ (pc = "done" /\ objdump_calls > 0)

\* the loop over the prologue's lines has ended
ModulesParsed ==
    \/ (pc = "modules" /\ line_no = Len(lines))
    \/ pc \in {"bb_header", "decode"}
    \/ DecodeFinished
    \/ (pc = "done" /\ outcome = "returned" /\ ~MarkerMissing(text_end))

\* the trace's header line declares c records
Declares(c) == EndsWith(content.text, HeaderText(ToString(c)))

\* the records of the trace that the run has decoded so far
Decoded == SubSeq(content.recs, 1, Len(bb_entries))

\* the bytes [offset, offset + size) of a record
RangeOf(rec) == rec.offset..(rec.offset + rec.size - 1)

\* the decoded records of the trace that carry the target module's id
TargetRecords ==
    { Decoded[i] : i \in { j \in 1..Len(bb_entries) :
                             Decoded[j].module_id = target_module[1].id } }

C2_NoMarker ==
    ~Contains(content.text, Marker) =>
        /\ pc \in {"open", "done"}
        /\ outcome # "raised"
        /\ (pc = "done" => outcome = "returned")
        /\ report = None
        /\ line_no = 0
        /\ modules = <<>>
        /\ target_module = None
        /\ bb_entries = <<>>
        /\ objdump_calls = 0

\* a trace with a target row and records but no marker has returned None
C2_Witness ==
    /\ content.text = ProStd
    /\ Len(content.binary) > 0
    /\ pc = "done"
    /\ outcome = "returned"
    /\ report = None

MatchingRows ==
    SelectSeq(lines, LAMBDA line :
        /\ ~StartsWith(line, "Module Table:")
        /\ IsModuleRow(line)
        /\ RowAccepted(RowParts(line))
        /\ Contains(RowModule(RowParts(line)).path, "target.dll"))

\* C4: with more than one matching row the target module is the first
\* matching row, and only records with that row's id are aggregated
C4_FirstMatchWins ==
    (ModulesParsed /\ Len(MatchingRows) > 1) =>
        /\ target_module = Some(RowModule(RowParts(MatchingRows[1])))
        /\ \A k \in 1..Len(target_bbs) :
             \E i \in 1..Len(bb_entries) :
                /\ bb_entries[i].module_id = RowModule(RowParts(MatchingRows[1])).id
                /\ bb_entries[i].offset = target_bbs[k].offset
                /\ bb_entries[i].size = target_bbs[k].size

\* the accepted rows whose path holds the target's file name in any case
MatchingRowsAnyCase ==
    SelectSeq(lines, LAMBDA line :
        /\ ~StartsWith(line, "Module Table:")
        /\ IsModuleRow(line)
        /\ RowAccepted(RowParts(line))
        /\ Contains(Lower(RowModule(RowParts(line)).path), "target.dll"))

\* C5 as stated: a row whose path holds the target's file name in any letter
\* case is resolved as the target module
C5_CaseInsensitive ==
    (ModulesParsed /\ Len(MatchingRowsAnyCase) > 0) =>
        /\ target_module # None
        /\ \E k \in 1..Len(MatchingRowsAnyCase) :
             target_module[1] = RowModule(RowParts(MatchingRowsAnyCase[k]))

\* C5 as amended: the match is a case-sensitive substring test; a target is
\* resolved exactly when an accepted row's path contains "target.dll" in
\* lower case, and it is such a row
C5_CaseSensitive ==
    ModulesParsed =>
        /\ (target_module # None <=> Len(MatchingRows) > 0)
        /\ (target_module # None =>
              \E k \in 1..Len(MatchingRows) :
                 target_module[1] = RowModule(RowParts(MatchingRows[k])))

\* a table whose only row with the target's name has it in upper case has
\* been parsed to the end and no target is resolved
C5_Witness ==
    /\ content.text = ProUpper \o HeaderText("2")
    /\ Len(MatchingRowsAnyCase) = 1
    /\ DOMAIN modules = {0, 1}
    /\ pc = "done"
    /\ outcome = "returned"
    /\ target_module = None
    /\ report = None

\* C6: the covered set is the union of the ranges [offset, offset + size) of
\* the target records decoded, so bytes_covered counts every byte once
\* whatever the order, the overlaps and the repeats of the records
C6_CoveredIsUnion ==
    /\ (pc \in {"decode"} \/ DecodeFinished) =>
          /\ target_bytes_covered = UNION { RangeOf(rec) : rec \in TargetRecords }
          /\ Cardinality(target_bytes_covered) =
                Cardinality(UNION { RangeOf(rec) : rec \in TargetRecords })
    /\ (report # None) =>
          report[1].bytes_covered =
             Cardinality(UNION { RangeOf(rec) : rec \in TargetRecords })

\* two overlapping target blocks, [1001, 1004) then [1000, 1002), are
\* reported as 4 covered bytes
C6_Witness ==
    /\ content.recs = << Rec(1001, 3, 1), Rec(1000, 2, 1) >>
    /\ report # None
    /\ report[1].target_bbs = 2
    /\ report[1].bytes_covered = 4

\* the same block twice is reported as its 2 bytes
C6_WitnessRepeat ==
    /\ content.recs = << Rec(1000, 2, 1), Rec(1000, 2, 1) >>
    /\ report # None
    /\ report[1].target_bbs = 2
    /\ report[1].bytes_covered = 2

\* the statuses of the expected functions have been computed
StatusesComputed == Len(export_status) = Len(EXPORT_FUNCTIONS)

\* the distance of an export from the nearest target record decoded; 0 - 1
\* when there is none
NearestDistance(rva) ==
    LET ds == { Abs(rec.offset - rva) : rec \in TargetRecords }
    IN  IF ds = {} THEN 0 - 1 ELSE CHOOSE d \in ds : \A e \in ds : d <= e

\* C7: an expected export of the export table is hit exactly when a target
\* record starts less than 256 bytes from its rva, in either direction
C7_HitRule ==
    StatusesComputed =>
        \A k \in 1..Len(EXPORT_FUNCTIONS) :
            HasExport(export_addrs, EXPORT_FUNCTIONS[k]) =>
                LET rva == ExportAddr(export_addrs, EXPORT_FUNCTIONS[k])
                IN  /\ export_status[k] \in {"hit", "not_hit"}
                    /\ (export_status[k] = "hit") <=>
                          \E rec \in TargetRecords :
                             /\ rec.offset - rva < 256
                             /\ rva - rec.offset < 256

\* with the one target block at 1000: the exports at 1256 and at 744 are 256
\* bytes away and not hit, those at 1255 and at 745 are 255 bytes away and hit
C7_Witness ==
    /\ StatusesComputed
    /\ content.recs = << Rec(1000, 2, 1) >>
    /\ Len(target_bbs) = 1
    /\ \A name \in {"Aud_InitDll", "Aud_GetDllVersion", "Aud_GetString",
                     "Aud_PutString"} : HasExport(export_addrs, name)
    /\ NearestDistance(ExportAddr(export_addrs, "Aud_InitDll")) = 256
    /\ ExportAddr(export_addrs, "Aud_InitDll") = 1256
    /\ export_status[1] = "not_hit"
    /\ ExportAddr(export_addrs, "Aud_GetDllVersion") = 1255
    /\ export_status[3] = "hit"
    /\ ExportAddr(export_addrs, "Aud_GetString") = 745
    /\ export_status[23] = "hit"
    /\ ExportAddr(export_addrs, "Aud_PutString") = 744
    /\ export_status[24] = "not_hit"

\* the offsets of the window that are not covered
UncoveredSet == (export_window[1]..(export_window[2] - 1)) \ app_bytes_covered

\* [s, e] is a maximal run of uncovered offsets
MaximalRun(s, e) ==
    /\ s <= e
    /\ (s..e) \subseteq UncoveredSet
    /\ (s - 1) \notin UncoveredSet
    /\ (e + 1) \notin UncoveredSet

\* C8: the gaps are exactly the maximal runs of uncovered offsets of the
\* window, each with its inclusive end and its length, the longest first;
\* for the window [1000, 1010) and the covered set {1000, 1001, 1005, 1006,
\* 1007} they are [1002, 1004] of length 3 and then [1008, 1009] of length 2
C8_Gaps ==
    pc = "gap_output" =>
        /\ { <<gaps[k][1], gaps[k][2]>> : k \in 1..Len(gaps) } =
              { r \in UncoveredSet \X UncoveredSet : MaximalRun(r[1], r[2]) }
        /\ \A k \in 1..Len(gaps) : gaps[k][3] = gaps[k][2] - gaps[k][1] + 1
        /\ \A j, k \in 1..Len(gaps) : j < k =>
              /\ gaps[j][3] >= gaps[k][3]
              /\ gaps[j] # gaps[k]
        /\ (export_window = <<1000, 1010>>
              /\ app_bytes_covered = {1000, 1001, 1005, 1006, 1007}) =>
              gaps = << <<1002, 1004, 3>>, <<1008, 1009, 2>> >>

\* the gaps of the example have been computed
C8_Witness ==
    /\ pc = "gap_output"
    /\ export_window = <<1000, 1010>>
    /\ app_bytes_covered = {1000, 1001, 1005, 1006, 1007}
    /\ gaps = << <<1002, 1004, 3>>, <<1008, 1009, 2>> >>

\* C9: the loop decodes min(bb_count, len(binary suffix) div 8) records, the
\* first ones of the stream; an incomplete trailing record is dropped, the
\* run goes on to the next stage, and a run that returns after the decode
\* returns a report with the records decoded
C9_DecodeCount ==
    /\ \A c \in (0 - 1)..(MaxRecs + 1) :
          (Declares(c) /\ DecodeFinished) =>
              /\ bb_count = c
              /\ Len(bb_entries) = Min(c, Len(content.binary) \div 8)
              /\ bb_entries = Decoded
    /\ (pc = "coverage") => outcome = "running"
    /\ (DecodeFinished /\ pc = "done" /\ outcome = "returned") =>
          /\ report # None
          /\ report[1].total_bbs = bb_count
          /\ report[1].target_bbs = Len(target_bbs)

\* a stream of two records and a fragment of a third, declared as three, has
\* been reported with the two records decoded
C9_Witness ==
    /\ Declares(3)
    /\ Len(content.recs) = 2
    /\ content.tail > 0
    /\ Len(content.binary) = 16 + content.tail
    /\ Len(bb_entries) = 2
    /\ report # None
    /\ report[1].target_bbs = 2

\* a stream of two records declared as one has been reported with one record
C9_WitnessOverrun ==
    /\ Declares(1)
    /\ Len(content.recs) = 2
    /\ Len(bb_entries) = 1
    /\ report # None

\* C10: a step changes the covered set or the target block list only by
\* decoding a record with the target module's id, and decoding a record of
\* another module leaves both unchanged
C10_Frame ==
    [][ /\ (target_bbs' # target_bbs \/ target_bytes_covered' # target_bytes_covered) =>
            /\ bb_entries' = Append(bb_entries, content.recs[Len(bb_entries) + 1])
            /\ content.recs[Len(bb_entries) + 1].module_id = target_module[1].id
        /\ (Len(bb_entries') = Len(bb_entries) + 1
              /\ content.recs[Len(bb_entries) + 1].module_id # target_module[1].id) =>
            /\ target_bbs' = target_bbs
            /\ target_bytes_covered' = target_bytes_covered
        /\ (Len(bb_entries') = Len(bb_entries) + 1
              /\ content.recs[Len(bb_entries) + 1].module_id = target_module[1].id) =>
            /\ Len(target_bbs') = Len(target_bbs) + 1
            /\ target_bytes_covered' =
                  target_bytes_covered \cup RangeOf(content.recs[Len(bb_entries) + 1])
      ]_vars

\* a target block and then a block of module 0 at the same offset have been
\* decoded: one target block, two covered bytes
C10_Witness ==
    /\ pc = "coverage"
    /\ bb_entries = << Rec(1000, 2, 1), Rec(1000, 2, 0) >>
    /\ target_module[1].id = 1
    /\ target_bbs = << [offset |-> 1000, size |-> 2] >>
    /\ target_bytes_covered = {1000, 1001}

\* C11: during aggregation the covered set only grows: every step leaves it a
\* superset of what it was, and its cardinality never decreases
C11_Monotone ==
    [][ /\ target_bytes_covered \subseteq target_bytes_covered'
        /\ Cardinality(target_bytes_covered') >= Cardinality(target_bytes_covered)
      ]_vars

\* two disjoint target blocks have been aggregated one after the other: the
\* set grew from the 2 bytes of the first to 3 bytes
C11_Witness ==
    /\ pc = "decode"
    /\ bb_entries = << Rec(1000, 2, 1), Rec(1511, 1, 1) >>
    /\ Len(target_bbs) = 2
    /\ target_bytes_covered = {1000, 1001, 1511}

\* the trace names a fatal condition: it has no marker, or no accepted row of
\* its module table matches the target
FatalTrace ==
    \/ ~Contains(content.text, Marker)
    \/ Len(SelectSeq(Split(Strip(SubSeq(content.text, 1, Find(content.text, Marker, 0))), "\n"),
                     LAMBDA line :
                        /\ ~StartsWith(line, "Module Table:")
                        /\ IsModuleRow(line)
                        /\ RowAccepted(RowParts(line))
                        /\ Contains(RowModule(RowParts(line)).path, "target.dll"))) = 0

\* C12: every run ends in one of two outcomes, None for a fatal condition and
\* a report otherwise, and no trace content (a target row with start = end,
\* a count token that is no number) makes the run end in an exception
C12_TwoOutcomes ==
    /\ outcome # "raised"
    /\ (pc = "done") =>
          /\ outcome = "returned"
          /\ (report = None) <=> FatalTrace

\* the call of objdump -h has been made and yielded nothing to read: it raised
\* or printed nothing
SectionRunFailed == Len(objdump_runs) >= 1 /\ objdump_runs[1] \in {None, Some("")}

\* the call of objdump -p has been made and yielded nothing to read
ExportRunFailed == Len(objdump_runs) >= 2 /\ objdump_runs[2] \in {None, Some("")}

Export(name, addr) == [name |-> name, addr |-> addr]

\* what objdump -p printed: one export at 1000; three at 1000, 1016 and
\* 1040; the same three listed in another order; exports that share an
\* address, at 1000 and at 1024
AttrDumps ==
    { ExportDumpHead \o ExportLine("1", "0x3e8", "Aud_InitDll") \o "\n",
      ExportDumpHead \o ExportLine("1", "0x3e8", "Aud_InitDll")
                     \o ExportLine("2", "0x3f8", "Aud_GetString")
                     \o ExportLine("3", "0x410", "Aud_PutString") \o "\n",
      ExportDumpHead \o ExportLine("1", "0x410", "Aud_PutString")
                     \o ExportLine("2", "0x3e8", "Aud_InitDll")
                     \o ExportLine("3", "0x3f8", "Aud_GetString") \o "\n",
      ExportDumpHead \o ExportLine("1", "0x3e8", "Aud_InitDll")
                     \o ExportLine("2", "0x3e8", "Aud_GetDllVersion")
                     \o ExportLine("3", "0x400", "Aud_GetString")
                     \o ExportLine("4", "0x400", "Aud_PutString") \o "\n" }

\* n target blocks of 2 bytes, 4 bytes apart, from base on
CombBlocks(base, n) == [i \in 1..n |-> [offset |-> base + 4 * (i - 1), size |-> 2]]

InitAttr ==
    /\ content = Trace("", <<>>, 0)
    /\ pc = "app"
    /\ outcome = "running"
    /\ report = None
    /\ text_end = 0
    /\ lines = <<>>
    /\ line_no = 0
    /\ module_count = 0
    /\ modules = <<>>
    /\ target_module = None
    /\ binary_data = <<>>
    /\ bb_entries = <<>>
    /\ offset = 0
    /\ section = <<0, FallbackTextSize>>
    /\ coverage = <<Ratio(0, 1), Ratio(0, 1)>>
    /\ export_window = <<0, 0>>
    /\ app_bytes_covered = {}
    /\ app_coverage = Ratio(0, 1)
    /\ gaps = <<>>
    /\ gap_funcs = <<>>
    /\ TestIdle
    /\ objdump_calls = 2
    /\ \E dump \in AttrDumps :
         /\ objdump_runs = << None, Some(dump) >>
         /\ export_addrs = get_export_addresses(Some(dump))
    \* the first block starts below the first export, across it, above it, or
    \* across the end of the window of a table whose last export is at 1000
    /\ \E base \in {996, 999, 1010, 1511}, n \in 0..MaxCombBlocks :
         /\ target_bbs = CombBlocks(base, n)
         /\ bb_count = n
         /\ target_bytes_covered =
               UNION { BlockBytes(target_bbs[k]) : k \in 1..n }
    /\ export_status = ExportStatuses(export_addrs, target_bbs)
    /\ exports_hit = CountHit(export_status)
    /\ exports_missed = MissedNames(export_status)

NextAttr == AppCodeCoverage

SpecAttr == InitAttr /\ [][NextAttr]_vars

\* name is the export a gap starting at start lies in: its address is the
\* highest one that is not above start, and of the exports at that address
\* it is the one listed last, so that the next export in address order, if
\* there is one, lies above start
AttributedTo(name, start) ==
    \E k \in 1..Len(export_addrs) :
        /\ export_addrs[k].name = name
        /\ export_addrs[k].addr <= start
        /\ \A m \in 1..Len(export_addrs) :
             /\ ~(export_addrs[k].addr < export_addrs[m].addr
                    /\ export_addrs[m].addr <= start)
             /\ (export_addrs[m].addr = export_addrs[k].addr) => m <= k

\* C14: the gaps that get a containing function are the first 10 by rank and
\* no more, and the function of each is the export with the highest address
\* not above the gap's start whose successor in address order lies above it,
\* or the last export in address order when none follows
C14_Attribution ==
    (pc = "report" /\ Len(export_addrs) > 0) =>
        /\ Len(gap_funcs) = Min(10, Len(gaps))
        /\ \A k \in 1..Len(gap_funcs) : AttributedTo(gap_funcs[k], gaps[k][1])

\* thirteen gaps have been ranked and ten attributed, with exports that share
\* addresses: the longest gap, behind the blocks, lies in the last export
\* and the gap in front of the first block in the second export at 1000
C14_Witness ==
    /\ pc = "report"
    /\ Len(export_addrs) = 4
    /\ Len(gaps) = 13
    /\ Len(gap_funcs) = 10
    /\ gaps[1][1] = 1056
    /\ gap_funcs[1] = "Aud_PutString"
    /\ gaps[2] = << 1000, 1009, 10 >>
    /\ gap_funcs[2] = "Aud_GetDllVersion"

\* the lowest and the highest address of the export table
LowestRva == CHOOSE a \in ExportRvas(export_addrs) : \A b \in ExportRvas(export_addrs) : a <= b

HighestRva == CHOOSE a \in ExportRvas(export_addrs) : \A b \in ExportRvas(export_addrs) : b <= a

\* the bytes of the target blocks that lie in [lo, hi)
BlockBytesIn(lo, hi) ==
    { a \in lo..(hi - 1) :
        \E k \in 1..Len(target_bbs) :
            target_bbs[k].offset <= a /\ a < target_bbs[k].offset + target_bbs[k].size }

\* C15: with a non-empty export table the window is [min rva, max rva +
\* 0x200), and application coverage is 100 * |covered bytes inside the
\* window| / (max rva + 0x200 - min rva); bytes outside it do not count
C15_Window ==
    (pc = "report" /\ Len(export_addrs) > 0) =>
        /\ export_window = << LowestRva, HighestRva + 512 >>
        /\ app_bytes_covered = BlockBytesIn(LowestRva, HighestRva + 512)
        /\ app_coverage.num = 100 * Cardinality(BlockBytesIn(LowestRva, HighestRva + 512))
        /\ app_coverage.den = HighestRva + 512 - LowestRva

\* one export at 1000 and blocks from 1511 on: the window is [1000, 1512),
\* and of the covered bytes only 1511 lies in it
C15_Witness ==
    /\ pc = "report"
    /\ export_addrs = << Export("Aud_InitDll", 1000) >>
    /\ Len(target_bbs) = 3
    /\ target_bbs[1] = [offset |-> 1511, size |-> 2]
    /\ Cardinality(target_bytes_covered) = 6
    /\ export_window = << 1000, 1512 >>
    /\ app_bytes_covered = {1511}
    /\ app_coverage = Ratio(100, 512)

\* blocks from 999 on: byte 999 lies below the window and does not count
C15_WitnessBelow ==
    /\ pc = "report"
    /\ export_window[1] = 1000
    /\ target_bbs = << [offset |-> 999, size |-> 2] >>
    /\ app_bytes_covered = {1000}

\* get_export_addresses has returned (line 262)
ExportsRead == Len(objdump_runs) = 2

\* C16: an empty export table is no failure: every expected function is
\* counted as missed and none as hit, application coverage is 0.0, no gap is
\* computed, and the run returns a report that says so
C16_EmptyExports ==
    (ExportsRead /\ export_addrs = <<>>) =>
        /\ outcome # "raised"
        /\ exports_hit = 0
        /\ exports_missed = EXPORT_FUNCTIONS
        /\ gaps = <<>>
        /\ gap_funcs = <<>>
        /\ export_window = <<0, 0>>
        /\ app_coverage = Ratio(0, 1)
        /\ (pc = "done") =>
              /\ report # None
              /\ report[1].app_coverage_percent = Ratio(0, 1)
              /\ report[1].exports_hit = 0
              /\ report[1].export_coverage.num = 0

\* objdump -h printed the sections, objdump -p raised, and the run over two
\* target blocks has returned a report with application coverage 0.0
C16_Witness ==
    /\ Len(objdump_runs) = 2
    /\ objdump_runs[1] = Some(SectionDump)
    /\ objdump_runs[2] = None
    /\ export_addrs = <<>>
    /\ Len(target_bbs) = 2
    /\ pc = "done"
    /\ report # None
    /\ report[1].bytes_covered > 0
    /\ report[1].app_coverage_percent = Ratio(0, 1)
    /\ Len(exports_missed) = 29

\* C17: every expected function gets one of three statuses: hit, not hit
\* (in the export table, no target block within the threshold), not found
\* (absent from the table). Not found is told apart from not hit, is never
\* counted as a hit, and the run goes on to its report
C17_ThreeStatuses ==
    (ExportsRead /\ StatusesComputed) =>
        /\ \A k \in 1..Len(EXPORT_FUNCTIONS) :
             /\ export_status[k] \in {"hit", "not_hit", "not_found"}
             /\ (export_status[k] = "not_found") <=>
                    ~(\E e \in 1..Len(export_addrs) :
                         export_addrs[e].name = EXPORT_FUNCTIONS[k])
             /\ (export_status[k] = "not_hit") <=>
                    \E e \in 1..Len(export_addrs) :
                       /\ export_addrs[e].name = EXPORT_FUNCTIONS[k]
                       /\ \A b \in 1..Len(target_bbs) :
                            \/ target_bbs[b].offset - export_addrs[e].addr >= 256
                            \/ export_addrs[e].addr - target_bbs[b].offset >= 256
        /\ exports_hit =
              Cardinality({ k \in 1..Len(EXPORT_FUNCTIONS) : export_status[k] = "hit" })
        /\ Len(exports_missed) =
              Cardinality({ k \in 1..Len(EXPORT_FUNCTIONS) : export_status[k] # "hit" })
        /\ \A k \in 1..Len(EXPORT_FUNCTIONS) :
             (export_status[k] # "hit") <=>
                 \E m \in 1..Len(exports_missed) : exports_missed[m] = EXPORT_FUNCTIONS[k]
        /\ outcome # "raised"
        /\ (pc = "done") =>
              /\ report # None
              /\ report[1].exports_hit = exports_hit
              /\ report[1].exports_total = Len(EXPORT_FUNCTIONS)

\* with the exports of ExportDumpA and one target block at 1000 the run has
\* reported the three statuses side by side: Aud_InitDll not hit,
\* Aud_GetDllVersion hit, Aud_GetInterfaceVersion not found; two hits in all
C17_Witness ==
    /\ pc = "done"
    /\ report # None
    /\ Len(target_bbs) = 1
    /\ target_bbs[1].offset = 1000
    /\ Len(export_addrs) = 4
    /\ export_status[1] = "not_hit"
    /\ export_status[2] = "not_found"
    /\ export_status[3] = "hit"
    /\ report[1].exports_hit = 2
    /\ Len(exports_missed) = 27

\* lines 252-253 have been passed
CoverageComputed == Len(objdump_runs) >= 1 /\ outcome # "raised"

\* C18: coverage of total is 100 * |covered| / (end - start) of the target
\* row; for the one module 0x10000000..0x10020000 with id 0, the one record
\* (0x100, 0x10, module 0) and the export Aud_InitDll at 0x100, Aud_InitDll
\* is hit, 16 bytes are covered and coverage of total is 100 * 16 / 0x20000
C18_CoverageOfTotal ==
    /\ CoverageComputed =>
          /\ coverage[1].num = 100 * Cardinality(target_bytes_covered)
          /\ coverage[1].den = target_module[1].end - target_module[1].start
    /\ (/\ content \in ScenarioTraces
        /\ Len(objdump_runs) = 2
        /\ objdump_runs[2] = Some(ExportDumpB)) =>
          /\ target_module[1].start = 268435456
          /\ target_module[1].end = 268566528
          /\ export_addrs = << Export("Aud_InitDll", 256) >>
          /\ export_status[1] = "hit"
          /\ exports_hit = 1
          /\ Cardinality(target_bytes_covered) = 16
          /\ coverage[1] = Ratio(100 * 16, 131072)
          /\ (pc = "done") =>
                /\ report # None
                /\ report[1].bytes_covered = 16
                /\ report[1].exports_hit = 1

\* the run on that trace with that export table has returned its report
C18_Witness ==
    /\ content \in ScenarioTraces
    /\ pc = "done"
    /\ Len(objdump_runs) = 2
    /\ objdump_runs[2] = Some(ExportDumpB)
    /\ report # None
    /\ report[1].module.id = 0
    /\ report[1].bytes_covered = 16
    /\ coverage[1] = Ratio(1600, 131072)
    /\ export_status[1] = "hit"

\* two quotients are the same number
SameRatio(a, b) == a.num * b.den = b.num * a.den

\* the keys of the returned dict that hold a percentage, and those that hold
\* a count
ReportPercentKeys == {"coverage_percent", "app_coverage_percent", "export_coverage"}

ReportCountKeys ==
    {"total_bbs", "target_bbs", "bytes_covered", "exports_hit", "exports_total"}

\* the returned dict holds the percentage r under one of its keys
CarriesPercent(r) == \E f \in ReportPercentKeys : SameRatio(report[1][f], r)

\* the returned dict holds the count n under one of its keys
CarriesCount(n) == \E f \in ReportCountKeys : report[1][f] = n

\* the returned dict holds the ranked gap list under a key of its own
CarriesGaps ==
    \E f \in DOMAIN report[1] \ ({"module"} \cup ReportPercentKeys \cup ReportCountKeys) :
        report[1][f] = gaps

\* C19 as stated: the returned report carries the module, the three coverage
\* percentages (of total size, of the code section, of the export window),
\* the export hit and miss counts and the ranked gap list
C19_ReportCarriesAll ==
    (report # None) =>
        /\ report[1].module = target_module[1]
        /\ CarriesPercent(coverage[1])
        /\ CarriesPercent(coverage[2])
        /\ CarriesPercent(app_coverage)
        /\ CarriesCount(exports_hit)
        /\ CarriesCount(exports_hit + Len(exports_missed))
        /\ CarriesGaps

\* C19 as amended: the returned report has nine keys: the module, the counts
\* of records, target blocks and covered bytes, coverage of the code section,
\* coverage of the export window, the share and the number of expected
\* exports hit and the number of expected exports. Coverage of total size and
\* the ranked gaps are not in it
C19_ReportFields ==
    (report # None) =>
        /\ DOMAIN report[1] = {"module"} \cup ReportPercentKeys \cup ReportCountKeys
        /\ report[1].module = target_module[1]
        /\ report[1].total_bbs = bb_count
        /\ report[1].target_bbs = Len(target_bbs)
        /\ report[1].bytes_covered = Cardinality(target_bytes_covered)
        /\ report[1].coverage_percent.num = 100 * Cardinality(target_bytes_covered)
        /\ report[1].coverage_percent.den = section[2]
        /\ report[1].app_coverage_percent = app_coverage
        /\ report[1].export_coverage.num = 100 * exports_hit
        /\ report[1].export_coverage.den = Len(EXPORT_FUNCTIONS)
        /\ report[1].exports_hit = exports_hit
        /\ report[1].exports_total = exports_hit + Len(exports_missed)
        /\ ~CarriesGaps

\* a report has been returned by a run that found gaps and whose coverage of
\* total size, 1600 / 131072, is none of the percentages returned
C19_Witness ==
    /\ content \in ScenarioTraces
    /\ report # None
    /\ Len(gaps) > 0
    /\ section = << 0, 168232 >>
    /\ coverage[1] = Ratio(1600, 131072)
    /\ report[1].coverage_percent = Ratio(1600, 168232)
    /\ ~CarriesPercent(coverage[1])

\* the decode loop has read every record it reads: the declared count is
\* reached or fewer than 8 bytes are left
AllRecordsRead ==
    \/ Len(bb_entries) >= bb_count
    \/ Len(binary_data) - entry_size * Len(bb_entries) < entry_size

\* the Decoder has produced all it produces: the module table, bb_count and
\* every record it reads
DecoderCompleted ==
    /\ pc \notin {"open", "modules", "bb_header"}
    /\ ~MarkerMissing(text_end)
    /\ target_module # None
    /\ AllRecordsRead

\* the stages that have begun, by what they have produced
ResolverBegun == target_module # None

AggregatorBegun == target_bbs # <<>> \/ target_bytes_covered # {}

CorrelatorBegun == Len(objdump_runs) >= 1

\* C20 as stated: the stages run strictly one after the other, Decoder,
\* Resolver, Aggregator, Correlator, Report, and none begins before the one
\* in front of it has completed
C20_StrictStages ==
    /\ ResolverBegun => DecoderCompleted
    /\ AggregatorBegun => (ResolverBegun /\ DecoderCompleted)
    /\ CorrelatorBegun => DecoderCompleted
    /\ (report # None) => (Len(objdump_runs) = 2 /\ StatusesComputed)

\* C20 as amended: the run goes through its steps in one order. The module
\* table is parsed and the target resolved, in one loop, before the record
\* header is read; no record is decoded before the target is resolved; each
\* record is aggregated in the step that decodes it, so the target blocks
\* are some of the records decoded so far; objdump is called only when the
\* decode loop has ended; and a report is returned only after both objdump
\* calls and the export statuses
C20_StepOrder ==
    /\ (pc \notin {"open", "modules", "done"}) =>
          (target_module # None /\ line_no = Len(lines))
    /\ (bb_count # 0 \/ bb_entries # <<>>) =>
          (target_module # None /\ line_no = Len(lines))
    /\ Len(target_bbs) <= Len(bb_entries)
    /\ \A k \in 1..Len(target_bbs) :
          \E i \in 1..Len(bb_entries) :
             /\ bb_entries[i].module_id = target_module[1].id
             /\ bb_entries[i].offset = target_bbs[k].offset
             /\ bb_entries[i].size = target_bbs[k].size
    /\ AggregatorBegun => bb_entries # <<>>
    /\ CorrelatorBegun => AllRecordsRead
    /\ (Len(objdump_runs) = 2) => StatusesComputed
    /\ (pc \in {"report"} \/ report # None) =>
          (Len(objdump_runs) = 2 /\ StatusesComputed)

\* in the middle of the decode loop: the target is resolved, the first of
\* two records is decoded and already aggregated, the second is not yet
\* decoded
C20_Witness ==
    /\ pc = "decode"
    /\ content.recs = << Rec(1000, 2, 1), Rec(1001, 3, 1) >>
    /\ bb_count = 2
    /\ Len(bb_entries) = 1
    /\ target_module # None
    /\ target_bytes_covered = {1000, 1001}
    /\ Len(objdump_runs) = 0

\* a prologue line that starts with a digit but is no row: fewer than ten
\* fields, or an id, a start or an end that is no number
MalformedRow(line) ==
    /\ Strip(line) # ""
    /\ Ch(Strip(line), 1) \in {"0", "1", "2", "3", "4", "5", "6", "7", "8", "9"}
    /\ \/ Len(Split(line, ",")) < 10
       \/ ~IntOk(Split(line, ",")[1])
       \/ ~HexOk(Split(line, ",")[3])
       \/ ~HexOk(Split(line, ",")[4])

\* a prologue line that starts with a digit and is a row
WellFormedRow(line) ==
    /\ Strip(line) # ""
    /\ Ch(Strip(line), 1) \in {"0", "1", "2", "3", "4", "5", "6", "7", "8", "9"}
    /\ Len(Split(line, ",")) >= 10
    /\ IntOk(Split(line, ",")[1])
    /\ HexOk(Split(line, ",")[3])
    /\ HexOk(Split(line, ",")[4])

\* the step loops over the next line of the prologue
LoopsOverLine == pc = "modules" /\ line_no' = line_no + 1

\* C21: a digit-prefixed line with fewer than 10 fields, or with an id, a
\* start or an end that does not parse, is skipped: the run goes on and the
\* modules parsed before stay as they are. An accepted row yields id = field
\* 0, start = field 2 (hex), end = field 3 (hex), path = field 9 and size =
\* end - start, and leaves the other modules as they are
C21_LenientRows ==
    [][ LoopsOverLine =>
          /\ MalformedRow(lines[line_no + 1]) =>
                /\ modules' = modules
                /\ target_module' = target_module
                /\ pc' = "modules"
                /\ outcome' = "running"
          /\ WellFormedRow(lines[line_no + 1]) =>
                LET field == Split(lines[line_no + 1], ",")
                    id == ParseInt(field[1])
                IN  /\ DOMAIN modules' = DOMAIN modules \cup {id}
                    /\ modules'[id].id = id
                    /\ modules'[id].start = ParseHex(field[3])
                    /\ modules'[id].end = ParseHex(field[4])
                    /\ modules'[id].size = ParseHex(field[4]) - ParseHex(field[3])
                    /\ modules'[id].path = Strip(field[10])
                    /\ \A k \in DOMAIN modules \ {id} : modules'[k] = modules[k]
                    /\ pc' = "modules"
                    /\ outcome' = "running"
      ]_vars

\* the table of ProSkippedAfter has been parsed to its end: the target row
\* is module 1 with its addresses and its size, and the three lines behind
\* it (nine fields, id 1a, start 0x1000000g) have added and changed nothing
C21_Witness ==
    /\ StartsWith(content.text, ProSkippedAfter)
    /\ pc = "bb_header"
    /\ line_no = Len(lines)
    /\ Len(SelectSeq(lines, MalformedRow)) = 3
    /\ DOMAIN modules = {1}
    /\ modules[1] = [ id |-> 1, start |-> 268435456, end |-> 268566528,
                      size |-> 131072, path |-> "C:\\bin\\target.dll" ]
    /\ target_module = Some(modules[1])

\* C22: EXPORT_FUNCTIONS holds exactly 28 distinct names, every report has
\* exports_total = 28 and export coverage is 100 * exports_hit / 28
C22_TwentyEight ==
    /\ Len(EXPORT_FUNCTIONS) = 28
    /\ Cardinality({ EXPORT_FUNCTIONS[k] : k \in 1..Len(EXPORT_FUNCTIONS) }) = 28
    /\ (report # None) =>
          /\ report[1].exports_total = 28
          /\ report[1].export_coverage.num = 100 * report[1].exports_hit
          /\ report[1].export_coverage.den = 28

(***************************************************************************)
(* tests/parity_test.py: DLLWrapper.init_dll_full (lines 136-160). The DLL *)
(* is the environment: what Aud_InitDll returns is chosen from small sets  *)
(* of unsigned 32-bit values.                                              *)
(***************************************************************************)
INIT_XOR_CONSTANT == 1114983470

PHASE3_MAGIC == 1230000000

PHASE3_XOR_RESULT == 1826820242

\* a variant that ORs the bits
RECURSIVE Xor_Or(_, _)
Xor_Or(a, b) ==
    IF a = 0 THEN b
    ELSE IF b = 0 THEN a
    ELSE 2 * Xor_Or(a \div 2, b \div 2) + (IF a % 2 = 1 \/ b % 2 = 1 THEN 1 ELSE 0)

\* a ^ b on non-negative integers
RECURSIVE Xor(_, _)
Xor(a, b) ==
    IF a = 0 THEN b
    ELSE IF b = 0 THEN a
    ELSE 2 * Xor(a \div 2, b \div 2) + (((a % 2) + (b % 2)) % 2)

\* one call into a DLL: which DLL, which function, its argument and what it
\* returned
Call(dll, fn, arg, ret) == [dll |-> dll, fn |-> fn, arg |-> arg, ret |-> ret]

\* what Aud_InitDll(0) returns: small values, the constant itself, the
\* largest value with 31 bits
Challenges == (0..MaxChallenge) \cup {1114983470, 2147483647}

\* what the second call returns: 0 accepts the response
Phase2Returns == {0, 1, 28}

\* what the third call returns: the value expected, and others
Phase3Returns == {632512274, 0, 1230000000, 1826820242}

\* an analysis is not running
AnalysisIdle ==
    /\ content = Trace("", <<>>, 0)
    /\ pc = "idle"
    /\ export_window = <<0, 0>>
    /\ app_bytes_covered = {}
    /\ AnalysisLocals

InitInitDll ==
    /\ AnalysisIdle
    /\ test_pc = "phase1"
    /\ dll_calls = <<>>
    /\ challenge = 0
    /\ result = 0
    /\ init_return = None
    /\ orig_open = 0
    /\ rebuilt_open = 0
    /\ passed = TRUE
    /\ test_returned = FALSE

\* line 145: challenge = self.dll.Aud_InitDll(0)
Phase1 ==
    /\ test_pc = "phase1"
    /\ \E ret \in Challenges :
         /\ challenge' = ret
         /\ dll_calls' = Append(dll_calls, Call("dll", "Aud_InitDll", 0, ret))
    /\ test_pc' = "phase2"
    /\ UNCHANGED << analysis_vars, result, init_return, orig_open, rebuilt_open,
                    passed, test_returned >>

\* lines 148-151: the response, the second call and its check
Phase2 ==
    /\ test_pc = "phase2"
    /\ \E ret \in Phase2Returns :
         LET response == Xor(challenge, INIT_XOR_CONSTANT)
         IN  /\ dll_calls' = Append(dll_calls, Call("dll", "Aud_InitDll", response, ret))
             /\ result' = ret
             /\ IF ret # 0
                THEN /\ init_return' = Some(FALSE)
                     /\ test_pc' = "done"
                ELSE /\ test_pc' = "phase3"
                     /\ UNCHANGED init_return
    /\ UNCHANGED << analysis_vars, challenge, orig_open, rebuilt_open, passed,
                    test_returned >>

\* lines 154-160: the third call and its check
Phase3 ==
    /\ test_pc = "phase3"
    /\ \E ret \in Phase3Returns :
         LET expected == Xor(PHASE3_MAGIC, PHASE3_XOR_RESULT)
         IN  /\ dll_calls' = Append(dll_calls, Call("dll", "Aud_InitDll", PHASE3_MAGIC, ret))
             /\ result' = ret
             /\ init_return' = Some(ret = expected)
    /\ test_pc' = "done"
    /\ UNCHANGED << analysis_vars, challenge, orig_open, rebuilt_open, passed,
                    test_returned >>

NextInitDll == Phase1 \/ Phase2 \/ Phase3

SpecInitDll == InitInitDll /\ [][NextInitDll]_vars

\* bit i of n
Bit(n, i) == (n \div (2 ^ i)) % 2

\* c is a ^ b, bit by bit
IsXorOf(c, a, b) ==
    /\ c >= 0
    /\ \A i \in 0..30 : Bit(c, i) = (Bit(a, i) + Bit(b, i)) % 2

\* C23: init_dll_full calls Aud_InitDll(0), then Aud_InitDll(challenge XOR
\* 1114983470), then Aud_InitDll(1230000000), in that order; the third call
\* is made only if the second returned 0; and it reports success exactly
\* when the second call returned 0 and the third returned 1230000000 XOR
\* 1826820242
C23_InitProtocol ==
    /\ Len(dll_calls) <= 3
    /\ \A k \in 1..Len(dll_calls) : dll_calls[k].fn = "Aud_InitDll"
    /\ (Len(dll_calls) >= 1) => dll_calls[1].arg = 0
    /\ (Len(dll_calls) >= 2) =>
          IsXorOf(dll_calls[2].arg, dll_calls[1].ret, 1114983470)
    /\ (Len(dll_calls) >= 3) =>
          /\ dll_calls[3].arg = 1230000000
          /\ dll_calls[2].ret = 0
    /\ (init_return # None) =>
          /\ Len(dll_calls) >= 2
          /\ (dll_calls[2].ret = 0) => Len(dll_calls) = 3
          /\ init_return[1] <=>
                /\ dll_calls[2].ret = 0
                /\ Len(dll_calls) = 3
                /\ IsXorOf(dll_calls[3].ret, 1230000000, 1826820242)
    /\ (test_pc = "done") <=> (init_return # None)

\* the three calls have been made for the challenge 5 and success reported
C23_Witness ==
    /\ test_pc = "done"
    /\ Len(dll_calls) = 3
    /\ dll_calls[1] = Call("dll", "Aud_InitDll", 0, 5)
    /\ dll_calls[2] = Call("dll", "Aud_InitDll", 1114983467, 0)
    /\ dll_calls[3] = Call("dll", "Aud_InitDll", 1230000000, 632512274)
    /\ init_return = Some(TRUE)

\* the second call returned 28: no third call, and failure reported
C23_WitnessRejected ==
    /\ test_pc = "done"
    /\ Len(dll_calls) = 2
    /\ dll_calls[2].ret = 28
    /\ init_return = Some(FALSE)

(***************************************************************************)
(* get_export_addresses on its own (lines 63-106), applied to dumps of at  *)
(* most MaxDumpLines lines behind an optional "Export Table:" line.        *)
(***************************************************************************)
\* the lines a dump is written from: the table's header lines, entries, an
\* entry that gives Aud_InitDll another address, a decorated name, a name
\* with the word Ordinal in it, a blank line, a line of blanks, an entry
\* with no name, an address with no 0x, an address that is no number
DumpLines ==
    << "Export Table:",
       " DLL name: target.dll",
       " Ordinal      RVA  Name",
       "       1   0x3e8  Aud_InitDll",
       "       2   0x400  Aud_GetString",
       "       3   0x500  Aud_InitDll",
       "       4   0x3e8  _Aud_InitDll@4",
       "       5   0x420  Aud_GetOrdinal",
       "",
       "   ",
       "       6   0x410",
       "       7   410  Aud_PutString",
       "       8   0x4zz  Aud_PutString" >>

\* the texts of at most n lines, each line followed by a newline
RECURSIVE DumpTexts(_)
DumpTexts(n) ==
    IF n = 0 THEN { "" }
    ELSE LET shorter == DumpTexts(n - 1)
         IN  shorter \cup
             { t \o DumpLines[k] \o "\n" :
                 t \in { u \in shorter : Len(Split(u, "\n")) = n }, k \in 1..Len(DumpLines) }

\* the dumps scanned: with and without the "Export Table:" line in front
ScanDumps ==
    { pre \o t : pre \in {"", "Export Table:\n"}, t \in DumpTexts(MaxDumpLines) }

InitExportScan ==
    /\ content = Trace("", <<>>, 0)
    /\ pc = "scan_input"
    /\ export_window = <<0, 0>>
    /\ app_bytes_covered = {}
    /\ InitLocals

\* lines 70-106: objdump -p prints a dump and get_export_addresses scans it
ScanExports ==
    /\ pc = "scan_input"
    /\ \E dump \in ScanDumps :
         /\ objdump_runs' = Append(objdump_runs, Some(dump))
         /\ export_addrs' = get_export_addresses(Some(dump))
    /\ objdump_calls' = objdump_calls + 1
    /\ pc' = "scan_output"
    /\ UNCHANGED << content, outcome, report, prologue_vars, decode_vars,
                    section, coverage, export_status, exports_hit,
                    exports_missed, export_window, app_bytes_covered,
                    app_coverage, gaps, gap_funcs, test_vars >>

NextExportScan == ScanExports

SpecExportScan == InitExportScan /\ [][NextExportScan]_vars

(***************************************************************************)
(* C24: the scan of the export dump.                                       *)
(***************************************************************************)
\* the lines of a dump, each with its tokens
LinesOf(dump) ==
    LET ls == Split(dump, "\n")
    IN  [i \in 1..Len(ls) |-> [text |-> ls[i], parts |-> SplitWS(ls[i])]]

\* the first line that contains "Export Table:", or 0
TableStart(ls) ==
    LET hits == { i \in 1..Len(ls) : Contains(ls[i].text, "Export Table:") }
    IN  IF hits = {} THEN 0 ELSE CHOOSE i \in hits : \A j \in hits : i <= j

\* the first blank line after line start, or one past the last line
TableEnd(ls, start) ==
    LET blanks == { i \in (start + 1)..Len(ls) : ls[i].parts = <<>> }
    IN  IF blanks = {} THEN Len(ls) + 1
        ELSE CHOOSE i \in blanks : \A j \in blanks : i <= j

\* a line that is none of the skipped lines
NotSkipped(l) ==
    /\ ~Contains(l.text, "Export Table:")
    /\ ~Contains(l.text, "DLL name:")
    /\ ~Contains(l.text, "Ordinal base:")
    /\ ~Contains(l.text, "Ordinal")

\* at least 3 tokens, the second starts with 0x, the third has no "@"
Qualifies(l) ==
    /\ Len(l.parts) >= 3
    /\ StartsWith(l.parts[2], "0x")
    /\ ~Contains(l.parts[3], "@")

\* the lines inside the table that are not skipped and qualify
EntryLines(ls) ==
    LET start == TableStart(ls)
        end == TableEnd(ls, start)
    IN  IF start = 0 THEN {}
        ELSE { i \in (start + 1)..(end - 1) : NotSkipped(ls[i]) /\ Qualifies(ls[i]) }

\* the entry lines whose address is a number
Contributing(ls) == { i \in EntryLines(ls) : HexOk(ls[i].parts[2]) }

\* exports is what the lines say it should be
ScanAgrees(ls, entries, contributing, exports) ==
    /\ \A k \in 1..Len(exports) :
         \E i \in entries :
             /\ ls[i].parts[3] = exports[k].name
             /\ ParseHex(ls[i].parts[2]) = exports[k].addr
    /\ \A i \in contributing :
         /\ HasExport(exports, ls[i].parts[3])
         /\ (\A j \in contributing : j > i => ls[j].parts[3] # ls[i].parts[3])
            => ExportAddr(exports, ls[i].parts[3]) = ParseHex(ls[i].parts[2])

\* C24: every name -> rva of the table get_export_addresses returns comes
\* from a line after the first "Export Table:" line and before the first
\* blank line after it, which contains none of "DLL name:", "Ordinal base:"
\* and "Ordinal", has at least 3 tokens, a second token that starts with 0x
\* and a name without "@"; and every such line whose second token is a
\* hexadecimal number puts its name in the table, with the address of the
\* last such line of that name.
C24_ExportScan ==
    pc = "scan_output" =>
        LET ls == LinesOf(objdump_runs[1][1])
        IN  ScanAgrees(ls, EntryLines(ls), Contributing(ls), export_addrs)

\* line k of ls is a well-formed entry whose name stays out of exports
LeftOut(ls, k, exports) ==
    /\ NotSkipped(ls[k])
    /\ Qualifies(ls[k])
    /\ HexOk(ls[k].parts[2])
    /\ ~HasExport(exports, ls[k].parts[3])

\* a dump with an entry inside the table, a blank line after it and a
\* well-formed entry after the blank line whose name stays out of the table
C24_Witness ==
    /\ pc = "scan_output"
    /\ LET ls == LinesOf(objdump_runs[1][1])
       IN  /\ Contributing(ls) # {}
           /\ \E k \in 1..Len(ls) :
                k > TableEnd(ls, TableStart(ls)) /\ LeftOut(ls, k, export_addrs)

\* a dump whose entry before the "Export Table:" line stays out of the table
C24_WitnessBefore ==
    /\ pc = "scan_output"
    /\ export_addrs # <<>>
    /\ LET ls == LinesOf(objdump_runs[1][1])
       IN  \E k \in 1..Len(ls) :
               k < TableStart(ls) /\ LeftOut(ls, k, export_addrs)

\* a dump whose entry with the word Ordinal in its name stays out of the table
C24_WitnessSkipped ==
    /\ pc = "scan_output"
    /\ export_addrs # <<>>
    /\ LET ls == LinesOf(objdump_runs[1][1])
           start == TableStart(ls)
       IN  \E k \in 1..Len(ls) :
               /\ start < k
               /\ k < TableEnd(ls, start)
               /\ Qualifies(ls[k])
               /\ Contains(ls[k].text, "Ordinal")
               /\ ~HasExport(export_addrs, ls[k].parts[3])
(***************************************************************************)
(* C25: the counts of a returned report.                                   *)
(***************************************************************************)
\* the run has returned a report after decoding the records
ReportReturned == pc = "done" /\ outcome = "returned" /\ report # None

\* C25: in every returned report target_bbs <= the number of records decoded
\* <= total_bbs, and total_bbs is the number of records decoded exactly when
\* the bytes after the header line hold at least total_bbs records of 8 bytes
C25_CountBounds ==
    ReportReturned =>
        /\ report[1].target_bbs <= Len(bb_entries)
        /\ Len(bb_entries) <= report[1].total_bbs
        /\ (report[1].total_bbs = Len(bb_entries))
               <=> (Len(binary_data) \div entry_size >= report[1].total_bbs)

(***************************************************************************)
(* C26: every attributed gap names an export.                              *)
(***************************************************************************)
\* C26: when the export table is not empty, the function found for a gap is
\* never the placeholder "unknown": it is the name of an export of the table
\* whose address is not above the gap's start
C26_NeverUnknown ==
    (pc = "report" /\ Len(export_addrs) > 0) =>
        \A k \in 1..Len(gap_funcs) :
            /\ gap_funcs[k] # "unknown"
            /\ HasExport(export_addrs, gap_funcs[k])
            /\ ExportAddr(export_addrs, gap_funcs[k]) <= gaps[k][1]

\* with two exports at 1000 and two at 1024, a gap that starts at 1024 has
\* been attributed to the export listed last at 1024, and a gap that starts
\* below 1024 to the one listed last at 1000
C26_Witness ==
    /\ pc = "report"
    /\ Len(export_addrs) = 4
    /\ \E k \in 1..Len(gap_funcs) :
         gaps[k][1] = 1024 /\ gap_funcs[k] = "Aud_PutString"
    /\ \E k \in 1..Len(gap_funcs) :
         gaps[k][1] < 1024 /\ gap_funcs[k] = "Aud_GetDllVersion"

(***************************************************************************)
(* C27: the gaps and the covered bytes account for the whole window.       *)
(***************************************************************************)
\* the sum of the lengths of the first n gaps
RECURSIVE GapLengths(_)
GapLengths(n) == IF n = 0 THEN 0 ELSE GapLengths(n - 1) + gaps[n][3]

\* C27: with a non-empty export table, two gaps never overlap nor touch, each
\* gap lies inside the window [min rva, max rva + 0x200), the lengths of the
\* gaps and the number of covered bytes inside the window add up to the size
\* of the window, and application coverage lies between 0 and 100
C27_Accounting ==
    (pc = "report" /\ Len(export_addrs) > 0) =>
        /\ \A j, k \in 1..Len(gaps) :
             j # k => (gaps[j][2] + 1 < gaps[k][1] \/ gaps[k][2] + 1 < gaps[j][1])
        /\ \A k \in 1..Len(gaps) :
             /\ LowestRva <= gaps[k][1]
             /\ gaps[k][1] <= gaps[k][2]
             /\ gaps[k][2] < HighestRva + 512
        /\ GapLengths(Len(gaps)) + Cardinality(app_bytes_covered)
              = HighestRva + 512 - LowestRva
        /\ app_coverage.den > 0
        /\ 0 <= app_coverage.num
        /\ app_coverage.num <= 100 * app_coverage.den

\* one export at 1000 and three blocks from 999 on: five bytes of the window
\* are covered and three gaps hold the other 507
C27_Witness ==
    /\ pc = "report"
    /\ export_window = << 1000, 1512 >>
    /\ app_bytes_covered = {1000, 1003, 1004, 1007, 1008}
    /\ Len(gaps) = 3
    /\ GapLengths(3) = 507
    /\ app_coverage = Ratio(500, 512)

(***************************************************************************)
(* C28: where the covered offsets lie.                                     *)
(***************************************************************************)
\* C28: every covered offset lies inside the target module, 0 <= offset <
\* size, and below 2^32, so that the number of covered bytes is at most the
\* module's size and coverage of total is at most 100
C28_InsideTarget ==
    CoverageComputed =>
        /\ \A a \in target_bytes_covered :
             /\ 0 <= a
             /\ a < target_module[1].size
             /\ a \div 65536 < 65536
        /\ Cardinality(target_bytes_covered) <= target_module[1].size
        /\ coverage[1].num <= 100 * coverage[1].den

(***************************************************************************)
(* The file tests of tests/parity_test.py: test_file_io_parity (lines      *)
(* 257-332) and test_file_io_rebuilt_only (lines 335-393). The two DLLs    *)
(* are collaborators: what their functions return is drawn from small      *)
(* sets, and every call is recorded in dll_calls.                          *)
(***************************************************************************)
\* what Aud_OpenGetFile returns: 0 for success, or an error code
OpenReturns == {0, 1, 28}

\* what Aud_GetNumberOfFiles and Aud_GetNumberOfChannels return: the return
\* value and the count written through the pointer
CountReturns == { <<0, 0>>, <<0, 1>>, <<0, 2>>, <<1, 0>> }

\* what Aud_CloseGetFile returns
CloseReturns == {0, 1}

InitFileIO ==
    /\ AnalysisIdle
    /\ test_pc \in {"parity_open", "rebuilt_open"}
    /\ dll_calls = <<>>
    /\ challenge = 0
    /\ result = 0
    /\ init_return = None
    /\ orig_open = 0
    /\ rebuilt_open = 0
    /\ passed = TRUE
    /\ test_returned = FALSE

\* lines 276-292: both DLLs open the file
ParityOpen ==
    /\ test_pc = "parity_open"
    /\ \E o, r \in OpenReturns :
         /\ orig_open' = o
         /\ rebuilt_open' = r
         /\ dll_calls' = dll_calls
                \o << Call("original", "Aud_OpenGetFile", 0, o),
                      Call("rebuilt", "Aud_OpenGetFile", 0, r) >>
         /\ passed' = IF o # r THEN FALSE ELSE passed
    /\ test_pc' = "parity_opened"
    /\ UNCHANGED << analysis_vars, challenge, result, init_return, test_returned >>

\* lines 295-300: an open failed; the DLLs that opened the file close it
ParityEarlyReturn ==
    /\ test_pc = "parity_opened"
    /\ orig_open # 0 \/ rebuilt_open # 0
    /\ \E c \in CloseReturns :
         dll_calls' = dll_calls
             \o (IF orig_open = 0
                 THEN << Call("original", "Aud_CloseGetFile", 0, c) >> ELSE << >>)
             \o (IF rebuilt_open = 0
                 THEN << Call("rebuilt", "Aud_CloseGetFile", 0, c) >> ELSE << >>)
    /\ test_returned' = TRUE
    /\ test_pc' = "done"
    /\ UNCHANGED << analysis_vars, challenge, result, init_return, orig_open,
                    rebuilt_open, passed >>

\* lines 303-313: the file counts of both
ParityFiles ==
    /\ test_pc = "parity_opened"
    /\ ~(orig_open # 0 \/ rebuilt_open # 0)
    /\ \E o, r \in CountReturns :
         /\ dll_calls' = dll_calls
                \o << Call("original", "Aud_GetNumberOfFiles", 0, o),
                      Call("rebuilt", "Aud_GetNumberOfFiles", 0, r) >>
         /\ passed' = IF o[1] # r[1] \/ o[2] # r[2] THEN FALSE ELSE passed
    /\ test_pc' = "parity_channels"
    /\ UNCHANGED << analysis_vars, challenge, result, init_return, orig_open,
                    rebuilt_open, test_returned >>

\* lines 316-326: the channel counts of both
ParityChannels ==
    /\ test_pc = "parity_channels"
    /\ \E o, r \in CountReturns :
         /\ dll_calls' = dll_calls
                \o << Call("original", "Aud_GetNumberOfChannels", 0, o),
                      Call("rebuilt", "Aud_GetNumberOfChannels", 0, r) >>
         /\ passed' = IF o[1] # r[1] \/ o[2] # r[2] THEN FALSE ELSE passed
    /\ test_pc' = "parity_close"
    /\ UNCHANGED << analysis_vars, challenge, result, init_return, orig_open,
                    rebuilt_open, test_returned >>

\* lines 329-332: both close the file
ParityClose ==
    /\ test_pc = "parity_close"
    /\ \E o, r \in CloseReturns :
         dll_calls' = dll_calls
             \o << Call("original", "Aud_CloseGetFile", 0, o),
                   Call("rebuilt", "Aud_CloseGetFile", 0, r) >>
    /\ test_returned' = TRUE
    /\ test_pc' = "done"
    /\ UNCHANGED << analysis_vars, challenge, result, init_return, orig_open,
                    rebuilt_open, passed >>

\* lines 350-359: the rebuilt DLL opens the file
RebuiltOpen ==
    /\ test_pc = "rebuilt_open"
    /\ \E r \in OpenReturns :
         /\ rebuilt_open' = r
         /\ dll_calls' = Append(dll_calls, Call("rebuilt", "Aud_OpenGetFile", 0, r))
    /\ test_pc' = "rebuilt_opened"
    /\ UNCHANGED << analysis_vars, challenge, result, init_return, orig_open,
                    passed, test_returned >>

\* lines 361-364: the open failed; close_file is called and the test returns
RebuiltEarlyReturn ==
    /\ test_pc = "rebuilt_opened"
    /\ rebuilt_open # 0
    /\ passed' = FALSE
    /\ \E c \in CloseReturns :
         dll_calls' = Append(dll_calls, Call("rebuilt", "Aud_CloseGetFile", 0, c))
    /\ test_returned' = TRUE
    /\ test_pc' = "done"
    /\ UNCHANGED << analysis_vars, challenge, result, init_return, orig_open,
                    rebuilt_open >>

\* lines 367-376: the file count, expected to be 1
RebuiltFiles ==
    /\ test_pc = "rebuilt_opened"
    /\ ~(rebuilt_open # 0)
    /\ \E r \in CountReturns :
         /\ dll_calls' = Append(dll_calls, Call("rebuilt", "Aud_GetNumberOfFiles", 0, r))
         /\ passed' = IF r[1] # 0 \/ r[2] # 1 THEN FALSE ELSE passed
    /\ test_pc' = "rebuilt_channels"
    /\ UNCHANGED << analysis_vars, challenge, result, init_return, orig_open,
                    rebuilt_open, test_returned >>

\* lines 379-388: the channel count, expected to be at least 1
RebuiltChannels ==
    /\ test_pc = "rebuilt_channels"
    /\ \E r \in CountReturns :
         /\ dll_calls' = Append(dll_calls, Call("rebuilt", "Aud_GetNumberOfChannels", 0, r))
         /\ passed' = IF r[1] # 0 \/ r[2] < 1 THEN FALSE ELSE passed
    /\ test_pc' = "rebuilt_close"
    /\ UNCHANGED << analysis_vars, challenge, result, init_return, orig_open,
                    rebuilt_open, test_returned >>

\* lines 391-393: the rebuilt DLL closes the file
RebuiltClose ==
    /\ test_pc = "rebuilt_close"
    /\ \E c \in CloseReturns :
         dll_calls' = Append(dll_calls, Call("rebuilt", "Aud_CloseGetFile", 0, c))
    /\ test_returned' = TRUE
    /\ test_pc' = "done"
    /\ UNCHANGED << analysis_vars, challenge, result, init_return, orig_open,
                    rebuilt_open, passed >>

NextFileIO ==
    \/ ParityOpen
    \/ ParityEarlyReturn
    \/ ParityFiles
    \/ ParityChannels
    \/ ParityClose
    \/ RebuiltOpen
    \/ RebuiltEarlyReturn
    \/ RebuiltFiles
    \/ RebuiltChannels
    \/ RebuiltClose

SpecFileIO == InitFileIO /\ [][NextFileIO]_vars

(***************************************************************************)
(* C29: every successful open is closed once, and nothing else is closed.  *)
(***************************************************************************)
\* the number of calls of fn on dll that satisfy ok
CallCount(dll, fn, ok(_)) ==
    Cardinality({ k \in 1..Len(dll_calls) :
                    dll_calls[k].dll = dll /\ dll_calls[k].fn = fn /\ ok(dll_calls[k].ret) })

\* C29: in both file tests Aud_CloseGetFile is never called on a DLL more
\* often than Aud_OpenGetFile has returned 0 on it, and when the test has
\* returned it has been called exactly once for each open that returned 0
C29_ClosePerOpen ==
    \A dll \in {"original", "rebuilt"} :
        /\ CallCount(dll, "Aud_CloseGetFile", LAMBDA r : TRUE)
              <= CallCount(dll, "Aud_OpenGetFile", LAMBDA r : r = 0)
        /\ test_returned =>
              CallCount(dll, "Aud_CloseGetFile", LAMBDA r : TRUE)
                  = CallCount(dll, "Aud_OpenGetFile", LAMBDA r : r = 0)

(***************************************************************************)
(* C30: the phase-3 constant and its comment.                              *)
(***************************************************************************)
\* line 47: the value the comment gives for the constant, in hexadecimal
PHASE3_XOR_RESULT_HEX == "0x6CE32A92"

\* C30: the hexadecimal value of the comment is the decimal literal assigned
\* to PHASE3_XOR_RESULT, both are below 2^32, and the value init_dll_full
\* accepts from the third call is PHASE3_MAGIC ^ the value of the comment
C30_DocumentedConstant ==
    /\ ParseHex(PHASE3_XOR_RESULT_HEX) = PHASE3_XOR_RESULT
    /\ ParseHex(PHASE3_XOR_RESULT_HEX) \div 65536 < 65536
    /\ PHASE3_XOR_RESULT \div 65536 < 65536
    /\ (Len(dll_calls) = 3 /\ init_return = Some(TRUE)) =>
          result = Xor(PHASE3_MAGIC, ParseHex(PHASE3_XOR_RESULT_HEX))

====
